---------------------------- MODULE Spec2Model ----------------------------
(***************************************************************************)
(* Model of the ballot-card interpreter: the bottom-row metadata decoder   *)
(* (src/src/metadata.rs) and the completion of a partial timing-mark frame *)
(* (src/src/timing_marks.rs).                                              *)
(*                                                                         *)
(* Pixel coordinates that the code keeps in f32 are kept here in fixed     *)
(* point, Scale units per pixel.  Rect fields are whole pixels, as in the  *)
(* code (imageproc::rect::Rect: i32 left/top, u32 width/height).           *)
(***************************************************************************)
EXTENDS Integers, Sequences, FiniteSets, TLC

(***************************************************************************)
(* Bounds of the model.                                                    *)
(***************************************************************************)
\* How many timing marks of a printed bottom row may be toggled (a mark
\* missed or a stray mark detected) before the row is decoded.
MaxFlips == 1

\* How many timing marks of a page's frame the scan may miss.
MaxMissing == 1

\* Fixed point: binary digits kept after the point of a pixel coordinate.
SubPixelBits == 2

MaxBeyond == 1

\* Angles handed to normalize_angle: the eighths of a radian up to
\* MaxEighths eighths either way (and angles about the multiples of PI).
MaxEighths == 100

\* Rects handed to center_of_rect: up to MaxRectSize pixels wide and high.
MaxRectSize == 11

(***************************************************************************)
(* Program constants.                                                      *)
(***************************************************************************)
METADATA_BITS == 32

\* An ender code whose last bit is set, as the start bit of a front is.
EnderCodeEndingInOne == <<FALSE, TRUE, TRUE, TRUE, TRUE, FALSE, TRUE, TRUE, TRUE, TRUE, TRUE>>

ENDER_CODE == <<FALSE, TRUE, TRUE, TRUE, TRUE, FALSE, TRUE, TRUE, TRUE, TRUE, FALSE>>

\* The literal 34 of compute_bits_from_bottom_timing_marks.
ExpectedCompleteCount == 34

\* The literal 2 of compute_bits_from_bottom_timing_marks.
MinimumPartialCount == 2

BitIndexes == 0 .. (METADATA_BITS - 1)

(***************************************************************************)
(* Results and options.                                                    *)
(***************************************************************************)
Ok(v) == [ok |-> TRUE, value |-> v]

Err(e) == [ok |-> FALSE, error |-> e]

None == [some |-> FALSE]

Some(v) == [some |-> TRUE, value |-> v]

Pow2(n) == 2 ^ n

\* u8::from(bit), u16::from(bit)
FromBool(b) == IF b THEN 1 ELSE 0

(***************************************************************************)
(* Rect (imageproc): left, top, width, height; right and bottom are the    *)
(* inclusive edges.                                                        *)
(***************************************************************************)
RectAt(l, t, w, h) == [left |-> l, top |-> t, width |-> w, height |-> h]

RectRight(r) == r.left + r.width - 1

RectBottom(r) == r.top + r.height - 1

(***************************************************************************)
(* metadata.rs: decoding of the 32 bits.                                   *)
(***************************************************************************)
\* A slice folded without .rev(): the first bit becomes the most significant.
RECURSIVE FoldBitsForward(_, _, _, _)
FoldBitsForward(bits_rtl, lo, hi, w) ==
    IF hi <= lo
    THEN 0
    ELSE LET acc == FoldBitsForward(bits_rtl, lo, hi - 1, w)
         IN  (((acc * 2) % Pow2(w)) + FromBool(bits_rtl[hi - 1])) % Pow2(w)

\* bits_rtl[lo..hi].iter().rev().fold(0, |acc, &bit| (acc << 1) + uN::from(bit))
\* in an unsigned integer of w bits.
RECURSIVE FoldBitsRev(_, _, _, _)
FoldBitsRev(bits_rtl, lo, hi, w) ==
    IF hi <= lo
    THEN 0
    ELSE LET acc == FoldBitsRev(bits_rtl, lo + 1, hi, w)
         IN  (((acc * 2) % Pow2(w)) + FromBool(bits_rtl[lo])) % Pow2(w)

\* bits_rtl[lo..].iter().map(|&bit| u8::from(bit)).sum::<u8>()
RECURSIVE SumBits(_, _, _)
SumBits(bits_rtl, lo, hi) ==
    IF hi <= lo
    THEN 0
    ELSE (FromBool(bits_rtl[lo]) + SumBits(bits_rtl, lo + 1, hi)) % Pow2(8)

ComputedMod4Checksum(bits_rtl) == SumBits(bits_rtl, 2, METADATA_BITS) % 4

\* The front metadata with the card number read one bit too low.
FrontMetadataCardShifted(bits_rtl) ==
    [ bits |-> bits_rtl,
      mod_4_checksum |-> FoldBitsRev(bits_rtl, 0, 2, 8),
      computed_mod_4_checksum |-> ComputedMod4Checksum(bits_rtl),
      batch_or_precinct_number |-> FoldBitsRev(bits_rtl, 2, 15, 16),
      card_number |-> FoldBitsRev(bits_rtl, 14, 27, 16),
      sequence_number |-> FoldBitsRev(bits_rtl, 28, 31, 8),
      start_bit |-> FromBool(bits_rtl[31]) ]

\* The BallotPageMetadataFront built on lines 232-264.
FrontMetadata(bits_rtl) ==
    [ bits |-> bits_rtl,
      mod_4_checksum |-> FoldBitsRev(bits_rtl, 0, 2, 8),
      computed_mod_4_checksum |-> ComputedMod4Checksum(bits_rtl),
      batch_or_precinct_number |-> FoldBitsRev(bits_rtl, 2, 15, 16),
      card_number |-> FoldBitsRev(bits_rtl, 15, 28, 16),
      sequence_number |-> FoldBitsRev(bits_rtl, 28, 31, 8),
      start_bit |-> FromBool(bits_rtl[31]) ]

\* The front decoder without its start-bit check.
DecodeFrontNoStartBitCheck(bits_rtl) ==
    LET front_metadata == FrontMetadata(bits_rtl)
    IN  IF front_metadata.computed_mod_4_checksum # front_metadata.mod_4_checksum
        THEN Err([type |-> "InvalidChecksum", metadata |-> front_metadata])
        ELSE Ok(front_metadata)

decode_front_metadata_from_bits(bits_rtl) ==
    LET front_metadata == FrontMetadata(bits_rtl)
    IN  IF front_metadata.computed_mod_4_checksum # front_metadata.mod_4_checksum
        THEN Err([type |-> "InvalidChecksum", metadata |-> front_metadata])
        ELSE IF front_metadata.start_bit # 1
        THEN Err([type |-> "ValueOutOfRange", field |-> "start_bit",
                  value |-> front_metadata.start_bit, min |-> 1, max |-> 1,
                  metadata |-> [side |-> "Front", metadata |-> front_metadata]])
        ELSE Ok(front_metadata)

\* The BallotPageMetadataBack built on lines 289-322.
BackMetadata(bits_rtl) ==
    [ bits |-> bits_rtl,
      election_day |-> FoldBitsRev(bits_rtl, 0, 5, 8),
      election_month |-> FoldBitsRev(bits_rtl, 5, 9, 8),
      election_year |-> FoldBitsRev(bits_rtl, 9, 16, 8),
      election_type |-> FoldBitsRev(bits_rtl, 16, 21, 8),
      ender_code |-> [k \in 1 .. 11 |-> bits_rtl[20 + k]],
      expected_ender_code |-> ENDER_CODE ]

\* The back decoder comparing only the first ten bits of the ender code.
DecodeBackShortEnderCode(bits_rtl) ==
    LET back_metadata == BackMetadata(bits_rtl)
    IN  IF SubSeq(back_metadata.ender_code, 1, 10) # SubSeq(ENDER_CODE, 1, 10)
        THEN Err([type |-> "InvalidEnderCode", metadata |-> back_metadata])
        ELSE Ok(back_metadata)

decode_back_metadata_from_bits(bits_rtl) ==
    LET back_metadata == BackMetadata(bits_rtl)
    IN  IF back_metadata.ender_code # ENDER_CODE
        THEN Err([type |-> "InvalidEnderCode", metadata |-> back_metadata])
        ELSE Ok(back_metadata)

\* The match returning the back decoding's error when neither validates.
MatchMetadataResultsBackError(front_metadata_result, back_metadata_result) ==
    IF front_metadata_result.ok /\ back_metadata_result.ok
    THEN Err([type |-> "AmbiguousMetadata",
              front_metadata |-> front_metadata_result.value,
              back_metadata |-> back_metadata_result.value])
    ELSE IF front_metadata_result.ok
    THEN Ok([side |-> "Front", metadata |-> front_metadata_result.value])
    ELSE IF back_metadata_result.ok
    THEN Ok([side |-> "Back", metadata |-> back_metadata_result.value])
    ELSE Err(back_metadata_result.error)

\* The match of decode_metadata_from_timing_marks, lines 348-358.
MatchMetadataResults(front_metadata_result, back_metadata_result) ==
    IF front_metadata_result.ok /\ back_metadata_result.ok
    THEN Err([type |-> "AmbiguousMetadata",
              front_metadata |-> front_metadata_result.value,
              back_metadata |-> back_metadata_result.value])
    ELSE IF front_metadata_result.ok
    THEN Ok([side |-> "Front", metadata |-> front_metadata_result.value])
    ELSE IF back_metadata_result.ok
    THEN Ok([side |-> "Back", metadata |-> back_metadata_result.value])
    ELSE Err(front_metadata_result.error)


(***************************************************************************)
(* metadata.rs: compute_bits_from_bottom_timing_marks.  A reversed slice   *)
(* iterator is the count of elements it has not yet yielded: next() yields *)
(* the element at that (1-based) index, or None at 0.                      *)
(***************************************************************************)
NoRect == RectAt(0, 0, 0, 0)

NoBits == [i \in BitIndexes |-> FALSE]

\* iter.next() on a reversed iterator with `remaining` elements left.
RevNext(rects, remaining) ==
    IF remaining = 0 THEN None ELSE Some(rects[remaining])

RevRest(remaining) == IF remaining = 0 THEN 0 ELSE remaining - 1

BitsLoopState(status, error, bits, bit, p_rem, c_rem, c_cur, p_cur) ==
    [ status |-> status, error |-> error, bits |-> bits, bit |-> bit,
      partial_remaining |-> p_rem,
      complete_remaining |-> c_rem,
      current_complete |-> c_cur,
      current_partial |-> p_cur ]

InvalidTimingMarkCount(expected, actual) ==
    [type |-> "InvalidTimingMarkCount", expected |-> expected, actual |-> actual]

NoError == [type |-> "none", expected |-> 0, actual |-> 0]

BitsNotStarted ==
    BitsLoopState("idle", NoError, NoBits, 0, 0, 0, NoRect, NoRect)

\* The start with the partial list checked against 1 instead of 2.
ComputeBitsStartOnePartial(partial_timing_marks, complete_timing_marks) ==
    IF Len(complete_timing_marks) # ExpectedCompleteCount
    THEN BitsLoopState("err",
             InvalidTimingMarkCount(ExpectedCompleteCount, Len(complete_timing_marks)),
             NoBits, 0, 0, 0, NoRect, NoRect)
    ELSE IF Len(partial_timing_marks) < 1
    THEN BitsLoopState("err",
             InvalidTimingMarkCount(MinimumPartialCount, Len(partial_timing_marks)),
             NoBits, 0, 0, 0, NoRect, NoRect)
    ELSE LET complete_skipped == RevRest(Len(complete_timing_marks))
             partial_skipped == RevRest(Len(partial_timing_marks))
             first_complete == RevNext(complete_timing_marks, complete_skipped)
             first_partial == RevNext(partial_timing_marks, partial_skipped)
         IN  IF first_complete.some /\ first_partial.some
             THEN BitsLoopState("running", NoError, NoBits, 0,
                      RevRest(partial_skipped), RevRest(complete_skipped),
                      first_complete.value, first_partial.value)
             ELSE BitsLoopState("unreachable", NoError, NoBits, 0,
                      RevRest(partial_skipped), RevRest(complete_skipped),
                      NoRect, NoRect)

\* The start without the skip of the last partial timing mark.
ComputeBitsStartPartialNoSkip(partial_timing_marks, complete_timing_marks) ==
    IF Len(complete_timing_marks) # ExpectedCompleteCount
    THEN BitsLoopState("err",
             InvalidTimingMarkCount(ExpectedCompleteCount, Len(complete_timing_marks)),
             NoBits, 0, 0, 0, NoRect, NoRect)
    ELSE IF Len(partial_timing_marks) < MinimumPartialCount
    THEN BitsLoopState("err",
             InvalidTimingMarkCount(MinimumPartialCount, Len(partial_timing_marks)),
             NoBits, 0, 0, 0, NoRect, NoRect)
    ELSE LET complete_skipped == RevRest(Len(complete_timing_marks))
             partial_skipped == Len(partial_timing_marks)
             first_complete == RevNext(complete_timing_marks, complete_skipped)
             first_partial == RevNext(partial_timing_marks, partial_skipped)
         IN  IF first_complete.some /\ first_partial.some
             THEN BitsLoopState("running", NoError, NoBits, 0,
                      RevRest(partial_skipped), RevRest(complete_skipped),
                      first_complete.value, first_partial.value)
             ELSE BitsLoopState("unreachable", NoError, NoBits, 0,
                      RevRest(partial_skipped), RevRest(complete_skipped),
                      NoRect, NoRect)

\* The start without the skip of the last complete timing mark.
ComputeBitsStartNoSkip(partial_timing_marks, complete_timing_marks) ==
    IF Len(complete_timing_marks) # ExpectedCompleteCount
    THEN BitsLoopState("err",
             InvalidTimingMarkCount(ExpectedCompleteCount, Len(complete_timing_marks)),
             NoBits, 0, 0, 0, NoRect, NoRect)
    ELSE IF Len(partial_timing_marks) < MinimumPartialCount
    THEN BitsLoopState("err",
             InvalidTimingMarkCount(MinimumPartialCount, Len(partial_timing_marks)),
             NoBits, 0, 0, 0, NoRect, NoRect)
    ELSE LET complete_skipped == Len(complete_timing_marks)
             partial_skipped == RevRest(Len(partial_timing_marks))
             first_complete == RevNext(complete_timing_marks, complete_skipped)
             first_partial == RevNext(partial_timing_marks, partial_skipped)
         IN  IF first_complete.some /\ first_partial.some
             THEN BitsLoopState("running", NoError, NoBits, 0,
                      RevRest(partial_skipped), RevRest(complete_skipped),
                      first_complete.value, first_partial.value)
             ELSE BitsLoopState("unreachable", NoError, NoBits, 0,
                      RevRest(partial_skipped), RevRest(complete_skipped),
                      NoRect, NoRect)

\* Lines 182-209: the two length checks, the skip of the last timing mark
\* of each list, and the first element of each walk.
ComputeBitsStart(partial_timing_marks, complete_timing_marks) ==
    IF Len(complete_timing_marks) # ExpectedCompleteCount
    THEN BitsLoopState("err",
             InvalidTimingMarkCount(ExpectedCompleteCount, Len(complete_timing_marks)),
             NoBits, 0, 0, 0, NoRect, NoRect)
    ELSE IF Len(partial_timing_marks) < MinimumPartialCount
    THEN BitsLoopState("err",
             InvalidTimingMarkCount(MinimumPartialCount, Len(partial_timing_marks)),
             NoBits, 0, 0, 0, NoRect, NoRect)
    ELSE LET complete_skipped == RevRest(Len(complete_timing_marks))
             partial_skipped == RevRest(Len(partial_timing_marks))
             first_complete == RevNext(complete_timing_marks, complete_skipped)
             first_partial == RevNext(partial_timing_marks, partial_skipped)
         IN  IF first_complete.some /\ first_partial.some
             THEN BitsLoopState("running", NoError, NoBits, 0,
                      RevRest(partial_skipped), RevRest(complete_skipped),
                      first_complete.value, first_partial.value)
             ELSE BitsLoopState("unreachable", NoError, NoBits, 0,
                      RevRest(partial_skipped), RevRest(complete_skipped),
                      NoRect, NoRect)

\* The iteration with the partial cursor advanced whether or not the
\* marks matched.
ComputeBitsIterationAlwaysAdvance(partial_timing_marks, complete_timing_marks, s) ==
    LET matched == (s.current_complete = s.current_partial)
        bits == IF matched THEN [s.bits EXCEPT ![s.bit] = TRUE] ELSE s.bits
        next_partial == RevNext(partial_timing_marks, s.partial_remaining)
        next_complete == RevNext(complete_timing_marks, s.complete_remaining)
    IN  IF ~next_partial.some
        THEN [s EXCEPT !.status = "ok", !.bits = bits]
        ELSE IF ~next_complete.some
        THEN [s EXCEPT !.status = "unreachable", !.bits = bits]
        ELSE [s EXCEPT !.status =
                           IF s.bit + 1 = METADATA_BITS THEN "ok" ELSE "running",
                       !.bits = bits,
                       !.bit = s.bit + 1,
                       !.partial_remaining = RevRest(@),
                       !.current_partial = next_partial.value,
                       !.complete_remaining = RevRest(@),
                       !.current_complete = next_complete.value]

\* Lines 211-223: one iteration of `for bit in &mut bits`, and the end of
\* the loop after the last bit.
ComputeBitsIteration(partial_timing_marks, complete_timing_marks, s) ==
    LET matched == (s.current_complete = s.current_partial)
        bits == IF matched THEN [s.bits EXCEPT ![s.bit] = TRUE] ELSE s.bits
        next_partial == RevNext(partial_timing_marks, s.partial_remaining)
        next_complete == RevNext(complete_timing_marks, s.complete_remaining)
    IN  IF matched /\ ~next_partial.some
        THEN \* break
             [s EXCEPT !.status = "ok", !.bits = bits]
        ELSE IF ~next_complete.some
        THEN [s EXCEPT !.status = "unreachable", !.bits = bits,
                       !.partial_remaining =
                           IF matched THEN RevRest(@) ELSE @,
                       !.current_partial =
                           IF matched THEN next_partial.value ELSE @]
        ELSE [s EXCEPT !.status =
                           IF s.bit + 1 = METADATA_BITS THEN "ok" ELSE "running",
                       !.bits = bits,
                       !.bit = s.bit + 1,
                       !.partial_remaining =
                           IF matched THEN RevRest(@) ELSE @,
                       !.current_partial =
                           IF matched THEN next_partial.value ELSE @,
                       !.complete_remaining = RevRest(@),
                       !.current_complete = next_complete.value]

RECURSIVE RunBitsLoop(_, _, _)
RunBitsLoop(partial_timing_marks, complete_timing_marks, s) ==
    IF s.status # "running"
    THEN s
    ELSE RunBitsLoop(partial_timing_marks, complete_timing_marks,
             ComputeBitsIteration(partial_timing_marks, complete_timing_marks, s))

\* The whole function: Ok(bits), Err(InvalidTimingMarkCount) or a panic on
\* one of the two unreachable!() branches.
compute_bits_from_bottom_timing_marks(partial_timing_marks, complete_timing_marks) ==
    RunBitsLoop(partial_timing_marks, complete_timing_marks,
        ComputeBitsStart(partial_timing_marks, complete_timing_marks))


(***************************************************************************)
(* ballot_card.rs: geometry.  Sizes that the code keeps in f32 are in      *)
(* fixed-point units.                                                      *)
(***************************************************************************)
Scale == Pow2(SubPixelBits)

Size(w, h) == [width |-> w, height |-> h]

Point(x, y) == [x |-> x, y |-> y]

Segment(start, end) == [start |-> start, end |-> end]

\* f32 of a whole number of pixels.
Px(n) == n * Scale

\* f32::round() as i32: to the nearest whole pixel, halves away from zero.
RoundToPixel(u) ==
    IF u >= 0
    THEN (2 * u + Scale) \div (2 * Scale)
    ELSE -((2 * (-u) + Scale) \div (2 * Scale))

get_scanned_ballot_card_geometry_8pt5x11 ==
    [ ballot_paper_size |-> "Letter",
      pixels_per_inch |-> 200,
      canvas_size |-> Size(1696, 2200),
      oval_size |-> Size(40, 26),
      timing_mark_size |-> Size((75 * Scale) \div 2, (25 * Scale) \div 2),
      grid_size |-> Size(34, 41) ]

get_scanned_ballot_card_geometry_8pt5x14 ==
    [ ballot_paper_size |-> "Legal",
      pixels_per_inch |-> 200,
      canvas_size |-> Size(1696, 2800),
      oval_size |-> Size(40, 26),
      timing_mark_size |-> Size((75 * Scale) \div 2, (25 * Scale) \div 2),
      grid_size |-> Size(34, 53) ]

Geometries ==
    {get_scanned_ballot_card_geometry_8pt5x11, get_scanned_ballot_card_geometry_8pt5x14}

(***************************************************************************)
(* geometry.rs.                                                            *)
(***************************************************************************)
\* The center taken with the right and bottom edges one past the rect.
CenterOfRectExclusive(rect) ==
    Point(Px(rect.left) + (Px(rect.left + rect.width) - Px(rect.left)) \div 2,
          Px(rect.top) + (Px(rect.top + rect.height) - Px(rect.top)) \div 2)

\* center_of_rect (lines 117-122).
center_of_rect(rect) ==
    Point(Px(rect.left) + (Px(RectRight(rect)) - Px(rect.left)) \div 2,
          Px(rect.top) + (Px(RectBottom(rect)) - Px(rect.top)) \div 2)

(***************************************************************************)
(* Angles are f32 radians, held as whole numbers of 2^-26: every f32 of    *)
(* magnitude below 16 and at least 1/8, and every sum and difference of    *)
(* two of them, is such a number.  An f32 keeps 24 significant bits.       *)
(***************************************************************************)
F32_ANGLE_UNIT_BITS == 26

\* The bits of an f32 significand.
F32_MANTISSA_BITS == 24

\* The number of bits of a natural number.
RECURSIVE BitLength(_)
BitLength(n) == IF n = 0 THEN 0 ELSE 1 + BitLength(n \div 2)

\* The f32 nearest to x, ties to even.
F32Round(x) ==
    LET m == IF x >= 0 THEN x ELSE -x
        bits == BitLength(m)
    IN  IF bits <= F32_MANTISSA_BITS
        THEN x
        ELSE LET ulp == Pow2(bits - F32_MANTISSA_BITS)
                 q == m \div ulp
                 r == m % ulp
                 nearest == IF 2 * r > ulp \/ (2 * r = ulp /\ q % 2 = 1) THEN q + 1 ELSE q
             IN  IF x >= 0 THEN nearest * ulp ELSE -(nearest * ulp)

\* std::f32::consts::PI, 13176795 * 2^-22.
PI == 13176795 * Pow2(F32_ANGLE_UNIT_BITS - 22)

\* a % b of f32 (no rounding; the sign of a).
F32Rem(a, b) == IF a >= 0 THEN a % b ELSE -((-a) % b)

\* while angle < 0.0 { angle += PI } (lines 84-86).
RECURSIVE WhileNegativeAddPi(_)
WhileNegativeAddPi(angle) ==
    IF angle < 0 THEN WhileNegativeAddPi(F32Round(angle + PI)) ELSE angle

\* while angle >= PI { angle -= PI } (lines 87-89).
RECURSIVE WhileNotBelowPiSubtractPi(_)
WhileNotBelowPiSubtractPi(angle) ==
    IF angle >= PI THEN WhileNotBelowPiSubtractPi(F32Round(angle - PI)) ELSE angle

\* The angle reduced to a full turn only.
NormalizeAngleFullTurn(angle) ==
    WhileNegativeAddPi(F32Rem(angle, 2 * PI))

\* normalize_angle (lines 78-91) of a finite angle.
normalize_angle(angle) ==
    WhileNotBelowPiSubtractPi(WhileNegativeAddPi(F32Rem(angle, 2 * PI)))

\* The integer square root, rounded down, by bisection of lo .. hi.
RECURSIVE ISqrtBetween(_, _, _)
ISqrtBetween(n, lo, hi) ==
    IF lo >= hi
    THEN lo
    ELSE LET mid == (lo + hi + 1) \div 2
         IN  IF mid * mid <= n
             THEN ISqrtBetween(n, mid, hi)
             ELSE ISqrtBetween(n, lo, mid - 1)

\* f32::sqrt: to the nearest unit.
Sqrt(n) ==
    LET r == ISqrtBetween(n, 0, IF n < 46340 THEN n ELSE 46340)
    IN  IF n - r * r > r THEN r + 1 ELSE r

\* (p1.x - p2.x).powi(2) + (p1.y - p2.y).powi(2)
SquaredDistance(p1, p2) ==
    (p1.x - p2.x) * (p1.x - p2.x) + (p1.y - p2.y) * (p1.y - p2.y)

\* Segment::length, segment_distance.
segment_distance(segment) == Sqrt(SquaredDistance(segment.start, segment.end))

\* a * b / d rounded down, for 0 <= a < d and b >= 0, without leaving the
\* range of a machine integer: b is taken one binary digit at a time.
RECURSIVE MulDivSmall(_, _, _)
MulDivSmall(a, b, d) ==
    IF b = 0
    THEN [quotient |-> 0, remainder |-> 0]
    ELSE LET half == MulDivSmall(a, b \div 2, d)
             doubled == 2 * half.remainder + (IF b % 2 = 1 THEN a ELSE 0)
         IN  [ quotient |-> 2 * half.quotient + doubled \div d,
               remainder |-> doubled % d ]

\* a * b / d to the nearest integer, d # 0.
MulDiv(a, b, d) ==
    LET sign == (IF a < 0 THEN -1 ELSE 1) * (IF b < 0 THEN -1 ELSE 1)
                    * (IF d < 0 THEN -1 ELSE 1)
        aa == IF a < 0 THEN -a ELSE a
        bb == IF b < 0 THEN -b ELSE b
        dd == IF d < 0 THEN -d ELSE d
        whole == (aa \div dd) * bb
        part == MulDivSmall(aa % dd, bb, dd)
        rounded == whole + part.quotient + (IF 2 * part.remainder >= dd THEN 1 ELSE 0)
    IN  sign * rounded

intersection_of_lines(segment1, segment2, bounded) ==
    LET p1 == segment1.start
        p2 == segment1.end
        p3 == segment2.start
        p4 == segment2.end
        d == (p4.y - p3.y) * (p2.x - p1.x) - (p4.x - p3.x) * (p2.y - p1.y)
        a == (p4.x - p3.x) * (p1.y - p3.y) - (p4.y - p3.y) * (p1.x - p3.x)
        b == (p2.x - p1.x) * (p1.y - p3.y) - (p2.y - p1.y) * (p1.x - p3.x)
        within(n) == IF d > 0 THEN 0 <= n /\ n <= d ELSE d <= n /\ n <= 0
    IN  IF d = 0
        THEN None
        ELSE IF ~bounded \/ (within(a) /\ within(b))
        THEN Some(Point(p1.x + MulDiv(a, p2.x - p1.x, d),
                        p1.y + MulDiv(a, p2.y - p1.y, d)))
        ELSE None

\* segments_intersect (lines 48-50).
segments_intersect(line1, line2) == intersection_of_lines(line1, line2, TRUE).some

\* A rect taken to meet a line only where the line crosses its left edge.
RectIntersectsLineLeftEdge(rect, line) ==
    segments_intersect(Segment(Point(Px(rect.left), Px(rect.top)),
                               Point(Px(rect.left), Px(RectBottom(rect)))), line)

\* rect_intersects_line (lines 53-67).
rect_intersects_line(rect, line) ==
    LET top_left == Point(Px(rect.left), Px(rect.top))
        top_right == Point(Px(RectRight(rect)), Px(rect.top))
        bottom_left == Point(Px(rect.left), Px(RectBottom(rect)))
        bottom_right == Point(Px(RectRight(rect)), Px(RectBottom(rect)))
        top_line == Segment(top_left, top_right)
        right_line == Segment(top_right, bottom_right)
        bottom_line == Segment(bottom_left, bottom_right)
        left_line == Segment(top_left, bottom_left)
    IN  \/ segments_intersect(top_line, line)
        \/ segments_intersect(bottom_line, line)
        \/ segments_intersect(left_line, line)
        \/ segments_intersect(right_line, line)

\* segment.with_length(length).vector(): the step of `length` from the
\* start of the segment towards its end (atan2(0, 0) is 0).
WithLengthVector(segment, length) ==
    LET dx == segment.end.x - segment.start.x
        dy == segment.end.y - segment.start.y
        len == Sqrt(dx * dx + dy * dy)
    IN  IF len = 0
        THEN Point(length, 0)
        ELSE Point(MulDiv(length, dx, len), MulDiv(length, dy, len))


(***************************************************************************)
(* timing_marks.rs: the partial frame and its completion.                  *)
(***************************************************************************)
\* sort_by on a key: a stable sort.  The elements below, equal to and
\* above the key of the middle element keep their order.
RECURSIVE SortBy(_, _)
SortBy(rects, key) ==
    IF Len(rects) <= 1
    THEN rects
    ELSE LET pivot == rects[(Len(rects) + 1) \div 2][key]
         IN  SortBy(SelectSeq(rects, LAMBDA x : x[key] < pivot), key)
                 \o SelectSeq(rects, LAMBDA x : x[key] = pivot)
                 \o SortBy(SelectSeq(rects, LAMBDA x : x[key] > pivot), key)

\* slice.first(), slice.last()
First(rects) == IF rects = << >> THEN None ELSE Some(rects[1])

Last(rects) == IF rects = << >> THEN None ELSE Some(rects[Len(rects)])

\* Lines 242-261: a corner rect is present when the ends of the two lines
\* that meet in the corner are equal (two absent ends are equal, and give
\* no rect).
CornerRect(a, b) == IF a = b THEN a ELSE None

PartialTimingMarks(geometry, corners, top, bottom, left, right) ==
    [ geometry |-> geometry,
      top_left_corner |-> corners[1],
      top_right_corner |-> corners[2],
      bottom_left_corner |-> corners[3],
      bottom_right_corner |-> corners[4],
      top_rects |-> top,
      bottom_rects |-> bottom,
      left_rects |-> left,
      right_rects |-> right,
      top_left_rect |-> CornerRect(First(top), First(left)),
      top_right_rect |-> CornerRect(Last(top), First(right)),
      bottom_left_rect |-> CornerRect(First(bottom), Last(left)),
      bottom_right_rect |-> CornerRect(Last(bottom), Last(right)) ]

\* Lines 184-355 of find_partial_timing_marks_from_candidate_rects, from
\* the four best-fit lines on: the sorts, the corner rects, the corner
\* points.  An unwrap() of an empty line's end or of a missing
\* intersection panics.
FindPartialFromLines(geometry, lines) ==
    LET top_line == SortBy(lines.top, "left")
        bottom_line == SortBy(lines.bottom, "left")
        left_line == SortBy(lines.left, "top")
        right_line == SortBy(lines.right, "top")
    IN  IF \E line \in {top_line, bottom_line, left_line, right_line} : line = << >>
        THEN [status |-> "panic"]
        ELSE LET ends(line) == Segment(center_of_rect(line[1]),
                                       center_of_rect(line[Len(line)]))
                 top_left == intersection_of_lines(ends(top_line), ends(left_line), FALSE)
                 top_right == intersection_of_lines(ends(top_line), ends(right_line), FALSE)
                 bottom_left ==
                     intersection_of_lines(ends(bottom_line), ends(left_line), FALSE)
                 bottom_right ==
                     intersection_of_lines(ends(bottom_line), ends(right_line), FALSE)
             IN  IF \E i \in {top_left, top_right, bottom_left, bottom_right} : ~i.some
                 THEN [status |-> "panic"]
                 ELSE [ status |-> "some",
                        value |-> PartialTimingMarks(geometry,
                            << top_left.value, top_right.value,
                               bottom_left.value, bottom_right.value >>,
                            top_line, bottom_line, left_line, right_line) ]

\* Lines 536-543, before the sort: the distance between the centers of
\* each two adjacent rects.  The sort of line 541 is absorbed by the sort
\* of all_distances on line 392.
distances_between_rects(rects) ==
    IF Len(rects) < 2
    THEN << >>
    ELSE [j \in 1 .. (Len(rects) - 1) |->
              segment_distance(Segment(center_of_rect(rects[j + 1]),
                                       center_of_rect(rects[j])))]

\* sorted(values)[k], k from 0: the value with at most k values below it
\* and more than k values not above it.
SortedNth(values, k) ==
    LET below(x) == Cardinality({j \in 1 .. Len(values) : values[j] < x})
        upto(x) == Cardinality({j \in 1 .. Len(values) : values[j] <= x})
    IN  CHOOSE x \in {values[j] : j \in 1 .. Len(values)} : below(x) <= k /\ k < upto(x)

\* Lines 486-495: timing_marks.iter().min_by(distance to the point); of
\* several nearest rects the first is returned.
ClosestRect(timing_marks, point) ==
    LET distances ==
            { << SquaredDistance(center_of_rect(timing_marks[j]), point), j >> :
                  j \in 1 .. Len(timing_marks) }
        first == CHOOSE a \in distances :
                     \A b \in distances : a[1] < b[1] \/ (a[1] = b[1] /\ a[2] <= b[2])
    IN  timing_marks[first[2]]

\* Lines 505-516: the rect of the nominal timing mark size centered on a
\* point.
NominalRectAt(point, geometry) ==
    RectAt(RoundToPixel(point.x - geometry.timing_mark_size.width \div 2),
           RoundToPixel(point.y - geometry.timing_mark_size.height \div 2),
           RoundToPixel(geometry.timing_mark_size.width),
           RoundToPixel(geometry.timing_mark_size.height))

\* The locals of infer_missing_timing_marks_on_segment at the head of its
\* while loop.
InferLoopState(timing_marks, expected_distance, expected_count, step, current, inferred) ==
    [ timing_marks |-> timing_marks,
      expected_distance |-> expected_distance,
      expected_count |-> expected_count,
      next_point_vector |-> step,
      current_timing_mark_center |-> current,
      inferred_timing_marks |-> inferred ]

\* Lines 476-483: up to the while loop.  Of an empty list nothing is
\* inferred: the function returns at once, which is a loop of no
\* iteration.
InferMissingEnter(timing_marks, segment, expected_distance, expected_count) ==
    InferLoopState(timing_marks, expected_distance,
        IF timing_marks = << >> THEN 0 ELSE expected_count,
        WithLengthVector(segment, expected_distance), segment.start, << >>)

\* A loop that makes one iteration more.
InferMissingContinuesOnceMore(loop) ==
    Len(loop.inferred_timing_marks) <= loop.expected_count

\* Line 484: the condition of the while loop.
InferMissingContinues(loop) ==
    Len(loop.inferred_timing_marks) < loop.expected_count

\* An iteration that takes the closest rect whenever it is within the whole
\* of expected_distance.
InferMissingIterationWholeDistance(loop, geometry) ==
    LET current == loop.current_timing_mark_center
        step == loop.next_point_vector
        closest_rect == ClosestRect(loop.timing_marks, current)
        center == center_of_rect(closest_rect)
    IN  IF SquaredDistance(center, current) <= loop.expected_distance * loop.expected_distance
        THEN InferLoopState(loop.timing_marks, loop.expected_distance,
                 loop.expected_count, step,
                 Point(center.x + step.x, center.y + step.y),
                 Append(loop.inferred_timing_marks, closest_rect))
        ELSE InferLoopState(loop.timing_marks, loop.expected_distance,
                 loop.expected_count, step,
                 Point(current.x + step.x, current.y + step.y),
                 Append(loop.inferred_timing_marks, NominalRectAt(current, geometry)))

\* Lines 485-518: one iteration.  length <= expected_distance / 2 is
\* compared on the squares.
InferMissingIteration(loop, geometry) ==
    LET current == loop.current_timing_mark_center
        step == loop.next_point_vector
        closest_rect == ClosestRect(loop.timing_marks, current)
        center == center_of_rect(closest_rect)
    IN  IF SquaredDistance(center, current)
               <= (loop.expected_distance * loop.expected_distance) \div 4
        THEN InferLoopState(loop.timing_marks, loop.expected_distance,
                 loop.expected_count, step,
                 Point(center.x + step.x, center.y + step.y),
                 Append(loop.inferred_timing_marks, closest_rect))
        ELSE InferLoopState(loop.timing_marks, loop.expected_distance,
                 loop.expected_count, step,
                 Point(current.x + step.x, current.y + step.y),
                 Append(loop.inferred_timing_marks, NominalRectAt(current, geometry)))

\* The sides in the order in which completion infers them (lines 400-438).
Sides == << "top", "bottom", "left", "right" >>

SideRects(p, side) ==
    CASE side = "top" -> p.top_rects
      [] side = "bottom" -> p.bottom_rects
      [] side = "left" -> p.left_rects
      [] side = "right" -> p.right_rects

SideSegment(p, side) ==
    CASE side = "top" -> Segment(p.top_left_corner, p.top_right_corner)
      [] side = "bottom" -> Segment(p.bottom_left_corner, p.bottom_right_corner)
      [] side = "left" -> Segment(p.top_left_corner, p.bottom_left_corner)
      [] side = "right" -> Segment(p.top_right_corner, p.bottom_right_corner)

SideExpectedCount(geometry, side) ==
    IF side \in {"top", "bottom"}
    THEN geometry.grid_size.width
    ELSE geometry.grid_size.height

\* The locals of find_complete_timing_marks_from_partial_timing_marks
\* while it infers the sides: the median, the lines inferred so far and
\* the loop of the side being inferred.
CompletionState(median_distance, lines, loop) ==
    [ median_distance |-> median_distance, lines |-> lines, loop |-> loop ]

\* No side inferred, none begun.
CompletionNotStarted == [lines |-> << >>]

\* The call of infer_missing_timing_marks_on_segment for the side that
\* follows the inferred ones.
EnterSide(p, geometry, median_distance, lines) ==
    LET side == Sides[Len(lines) + 1]
    IN  CompletionState(median_distance, lines,
            InferMissingEnter(SideRects(p, side), SideSegment(p, side),
                median_distance, SideExpectedCount(geometry, side)))

\* Lines 367-386: every corner rect is needed.
HasCornerRects(p) ==
    /\ p.top_left_rect.some
    /\ p.top_right_rect.some
    /\ p.bottom_left_rect.some
    /\ p.bottom_right_rect.some

\* Lines 388-392.
AllDistances(p) ==
    distances_between_rects(p.top_rects) \o distances_between_rects(p.bottom_rects)
        \o distances_between_rects(p.left_rects)
        \o distances_between_rects(p.right_rects)

\* A completion that asks for the two top corner rects only.
FindCompleteStartTopCornersOnly(p, geometry) ==
    IF ~(p.top_left_rect.some /\ p.top_right_rect.some)
    THEN [returned |-> TRUE, value |-> None]
    ELSE IF AllDistances(p) = << >>
    THEN [returned |-> TRUE, value |-> None]
    ELSE [ returned |-> FALSE,
           completion |->
               EnterSide(p, geometry,
                   SortedNth(AllDistances(p), Len(AllDistances(p)) \div 2), << >>) ]

\* Lines 359-405: the early returns, or else the median and the entry to
\* the inference of the top side.
FindCompleteStart(p, geometry) ==
    IF ~HasCornerRects(p)
    THEN [returned |-> TRUE, value |-> None]
    ELSE IF AllDistances(p) = << >>
    THEN [returned |-> TRUE, value |-> None]
    ELSE [ returned |-> FALSE,
           completion |->
               EnterSide(p, geometry,
                   SortedNth(AllDistances(p), Len(AllDistances(p)) \div 2), << >>) ]

\* Lines 440-462: the comparison of the lengths and the complete frame.
FindCompleteFinish(p, geometry, lines) ==
    IF Len(lines[1]) # Len(lines[2]) \/ Len(lines[3]) # Len(lines[4])
    THEN None
    ELSE Some([ geometry |-> geometry,
                top_rects |-> lines[1],
                bottom_rects |-> lines[2],
                left_rects |-> lines[3],
                right_rects |-> lines[4],
                top_left_corner |-> p.top_left_corner,
                top_right_corner |-> p.top_right_corner,
                bottom_left_corner |-> p.bottom_left_corner,
                bottom_right_corner |-> p.bottom_right_corner,
                top_left_rect |-> p.top_left_rect.value,
                top_right_rect |-> p.top_right_rect.value,
                bottom_left_rect |-> p.bottom_left_rect.value,
                bottom_right_rect |-> p.bottom_right_rect.value ])


\* TimingMarkGrid::new (lines 88-93).
TimingMarkGrid(geometry, complete_timing_marks) ==
    [geometry |-> geometry, complete_timing_marks |-> complete_timing_marks]

\* slice.get(index), index from 0.
SliceGet(rects, index) ==
    IF index < Len(rects) THEN Some(rects[index + 1]) ELSE None

\* A get that compares the row with the width of the grid.
TimingMarkGridGetRowAgainstWidth(grid, column, row) ==
    IF column >= grid.geometry.grid_size.width \/ row >= grid.geometry.grid_size.width
    THEN None
    ELSE LET left == SliceGet(grid.complete_timing_marks.left_rects, row)
             right == SliceGet(grid.complete_timing_marks.right_rects, row)
             top == SliceGet(grid.complete_timing_marks.top_rects, column)
             bottom == SliceGet(grid.complete_timing_marks.bottom_rects, column)
         IN  IF ~(left.some /\ right.some /\ top.some /\ bottom.some)
             THEN None
             ELSE intersection_of_lines(
                      Segment(center_of_rect(left.value), center_of_rect(right.value)),
                      Segment(center_of_rect(top.value), center_of_rect(bottom.value)),
                      FALSE)

\* A get that takes the row for the column and the column for the row.
TimingMarkGridGetTransposed(grid, column, row) ==
    IF column >= grid.geometry.grid_size.width \/ row >= grid.geometry.grid_size.height
    THEN None
    ELSE LET left == SliceGet(grid.complete_timing_marks.left_rects, column)
             right == SliceGet(grid.complete_timing_marks.right_rects, column)
             top == SliceGet(grid.complete_timing_marks.top_rects, row)
             bottom == SliceGet(grid.complete_timing_marks.bottom_rects, row)
         IN  IF ~(left.some /\ right.some /\ top.some /\ bottom.some)
             THEN None
             ELSE intersection_of_lines(
                      Segment(center_of_rect(left.value), center_of_rect(right.value)),
                      Segment(center_of_rect(top.value), center_of_rect(bottom.value)),
                      FALSE)

\* TimingMarkGrid::get (lines 107-123).
TimingMarkGridGet(grid, column, row) ==
    IF column >= grid.geometry.grid_size.width \/ row >= grid.geometry.grid_size.height
    THEN None
    ELSE LET left == SliceGet(grid.complete_timing_marks.left_rects, row)
             right == SliceGet(grid.complete_timing_marks.right_rects, row)
             top == SliceGet(grid.complete_timing_marks.top_rects, column)
             bottom == SliceGet(grid.complete_timing_marks.bottom_rects, column)
         IN  IF ~(left.some /\ right.some /\ top.some /\ bottom.some)
             THEN None
             ELSE intersection_of_lines(
                      Segment(center_of_rect(left.value), center_of_rect(right.value)),
                      Segment(center_of_rect(top.value), center_of_rect(bottom.value)),
                      FALSE)


(***************************************************************************)
(* ballot_card.rs: the geometry of a scanned image.                        *)
(***************************************************************************)
AbsDiff(a, b) == IF a >= b THEN a - b ELSE b - a

\* The f32 nearest to 0.01 is 167772.15625 / 2^24: a whole number of 2^-24
\* is less than it when it is at most 167772.
F32_HUNDREDTH == 167772

\* n steps of the binary long division of r by h: the quotient bits so
\* far and the remainder.
RECURSIVE F32DivisionSteps(_, _, _, _)
F32DivisionSteps(q, r, h, n) ==
    IF n = 0
    THEN << q, r >>
    ELSE IF 2 * r >= h
    THEN F32DivisionSteps(2 * q + 1, 2 * r - h, h, n - 1)
    ELSE F32DivisionSteps(2 * q, 2 * r, h, n - 1)

\* width as f32 / height as f32 (line 94) for a ratio in [0.5, 1), in
\* units of 2^-24: the quotient rounded to the nearest f32, ties to even.
F32Ratio(width, height) ==
    LET division == F32DivisionSteps(0, width, height, F32_MANTISSA_BITS)
        q == division[1]
        r == division[2]
    IN  IF 2 * r > height \/ (2 * r = height /\ q % 2 = 1) THEN q + 1 ELSE q

\* The comparison with a tolerance of a tenth.
AspectRatioMatchesTenth(width, height, canvas_size) ==
    /\ height > 0
    /\ 2 * width >= height
    /\ width < height
    /\ AbsDiff(F32Ratio(width, height), F32Ratio(canvas_size.width, canvas_size.height))
           <= 10 * F32_HUNDREDTH

\* (aspect_ratio - letter_aspect_ratio).abs() < 0.01, lines 94-104, as f32
\* computes it.  Both canvas ratios are in [0.5, 1) and more than 0.01
\* from its ends, so an aspect ratio outside [0.5, 1) matches neither;
\* inside, the two f32 ratios are whole numbers of 2^-24 and so is their
\* difference, which f32 subtracts without rounding.
AspectRatioMatches(width, height, canvas_size) ==
    /\ height > 0
    /\ 2 * width >= height
    /\ width < height
    /\ AbsDiff(F32Ratio(width, height), F32Ratio(canvas_size.width, canvas_size.height))
           <= F32_HUNDREDTH

\* get_scanned_ballot_card_geometry (lines 92-109).
get_scanned_ballot_card_geometry(size) ==
    LET letter_size == get_scanned_ballot_card_geometry_8pt5x11
        legal_size == get_scanned_ballot_card_geometry_8pt5x14
    IN  IF AspectRatioMatches(size.width, size.height, letter_size.canvas_size)
        THEN Some(letter_size)
        ELSE IF AspectRatioMatches(size.width, size.height, legal_size.canvas_size)
        THEN Some(legal_size)
        ELSE None

(***************************************************************************)
(* interpret.rs.  A scan is what the scanner left at a path: whether the   *)
(* file opens as an image, its dimensions, how far the search for the      *)
(* timing marks gets on it and the metadata bits its bottom row encodes.   *)
(* An image is known by the path it was loaded from.                       *)
(***************************************************************************)
ImageOpenFailure(path) == [type |-> "ImageOpenFailure", path |-> path]

UnexpectedDimensions(path, dimensions) ==
    [type |-> "UnexpectedDimensions", path |-> path, dimensions |-> dimensions]

BallotPagePathAndGeometry(path, geometry) == [path |-> path, geometry |-> geometry]

MismatchedBallotCardGeometries(side_a, side_b) ==
    [type |-> "MismatchedBallotCardGeometries", side_a |-> side_a, side_b |-> side_b]

MissingTimingMarks(rects) == [type |-> "MissingTimingMarks", rects |-> rects]

InvalidMetadata(path, error) ==
    [type |-> "InvalidMetadata", path |-> path, error |-> error]

InvalidCardMetadata(side_a, side_b) ==
    [type |-> "InvalidCardMetadata", side_a |-> side_a, side_b |-> side_b]

MissingGridLayout(front, back) ==
    [type |-> "MissingGridLayout", front |-> front, back |-> back]

\* load_ballot_page_image (lines 107-134).
load_ballot_page_image(image_path, scan) ==
    IF ~scan.opens
    THEN Err(ImageOpenFailure(image_path))
    ELSE LET geometry == get_scanned_ballot_card_geometry(scan.dimensions)
         IN  IF ~geometry.some
             THEN Err(UnexpectedDimensions(image_path,
                          Size(scan.dimensions.width, scan.dimensions.height)))
             ELSE Ok([image |-> image_path, geometry |-> geometry.value])

\* The join looking at side A's result only.
LoadJoinSideAOnly(side_a_path, side_b_path, side_a_result, side_b_result) ==
    IF ~side_a_result.ok
    THEN side_a_result
    ELSE Ok([side_a_image |-> side_a_path,
             side_b_image |-> side_b_path,
             geometry |-> side_a_result.value.geometry])

\* load_ballot_card_images after the join (lines 87-103).
LoadJoin(side_a_path, side_b_path, side_a_result, side_b_result) ==
    IF ~side_a_result.ok
    THEN side_a_result
    ELSE IF ~side_b_result.ok
    THEN side_b_result
    ELSE IF side_a_result.value.geometry # side_b_result.value.geometry
    THEN Err(MismatchedBallotCardGeometries(
                 BallotPagePathAndGeometry(side_a_path, side_a_result.value.geometry),
                 BallotPagePathAndGeometry(side_b_path, side_b_result.value.geometry)))
    ELSE Ok([side_a_image |-> side_a_result.value.image,
             side_b_image |-> side_b_result.value.image,
             geometry |-> side_a_result.value.geometry])

\* The pages in argument order.
ResolveSidesByPosition(side_a, side_b) ==
    Ok([front |-> side_a, back |-> side_b])

\* The match on the two pages' metadata (lines 159-175).  A page is its
\* image and its grid.
ResolveSides(side_a, side_b) ==
    IF side_a.grid.metadata.side = "Front" /\ side_b.grid.metadata.side = "Back"
    THEN Ok([front |-> side_a, back |-> side_b])
    ELSE IF side_a.grid.metadata.side = "Back" /\ side_b.grid.metadata.side = "Front"
    THEN Ok([front |-> side_b, back |-> side_a])
    ELSE Err(InvalidCardMetadata(side_a.grid.metadata, side_b.grid.metadata))

\* format!("card-number-{}", metadata.card_number), lines 177-182.
BallotStyleIdOfCard(card_number) == << "card-number-", card_number >>

\* grid_layouts.iter().find(..), lines 185-198: the first layout of the
\* election with the ballot style id.
FindGridLayout(grid_layouts, ballot_style_id) ==
    LET found == { i \in 1 .. Len(grid_layouts) :
                       grid_layouts[i].ballot_style_id = ballot_style_id }
    IN  IF found = {}
        THEN None
        ELSE Some(grid_layouts[CHOOSE i \in found : \A j \in found : i <= j])

(***************************************************************************)
(* timing_marks.rs: scoring.                                               *)
(***************************************************************************)
DEFAULT_MAXIMUM_SEARCH_DISTANCE == 7

\* GridPosition::location (election.rs).
GridPositionLocation(grid_position) ==
    [side |-> grid_position.side, column |-> grid_position.column,
     row |-> grid_position.row]

\* score_oval_mark (lines 648-720) as far as the bounds it searches from:
\* the match and fill scores are ratios of pixels of the image.
score_oval_mark(img, oval_size, expected_oval_center, location) ==
    LET center_x == RoundToPixel(expected_oval_center.x)
        center_y == RoundToPixel(expected_oval_center.y)
        left == center_x - oval_size.width \div 2
        top == center_y - oval_size.height \div 2
    IN  Some([location |-> location, image |-> img,
              original_bounds |-> RectAt(left, top, oval_size.width, oval_size.height)])

\* The loop over grid_layout.grid_positions with the side test dropped.
ScoreOvalMarksEverySide(img, oval_size, timing_mark_grid, grid_positions, side, k) ==
    [ j \in 1 .. Len(grid_positions) |->
        LET location == GridPositionLocation(grid_positions[j])
            expected_oval_center ==
                TimingMarkGridGet(timing_mark_grid, location.column, location.row)
        IN  IF expected_oval_center.some
            THEN << grid_positions[j],
                    score_oval_mark(img, oval_size, expected_oval_center.value, location) >>
            ELSE << grid_positions[j], None >> ]

\* The loop of score_oval_marks_from_grid_layout (lines 619-642) over the
\* first k grid positions.
RECURSIVE ScoreOvalMarksLoop(_, _, _, _, _, _)
ScoreOvalMarksLoop(img, oval_size, timing_mark_grid, grid_positions, side, k) ==
    IF k = 0
    THEN << >>
    ELSE LET scored_ovals ==
                 ScoreOvalMarksLoop(img, oval_size, timing_mark_grid, grid_positions, side, k - 1)
             grid_position == grid_positions[k]
             location == GridPositionLocation(grid_position)
             expected_oval_center ==
                 TimingMarkGridGet(timing_mark_grid, location.column, location.row)
         IN  IF location.side # side
             THEN scored_ovals
             ELSE IF expected_oval_center.some
             THEN Append(scored_ovals,
                         << grid_position,
                            score_oval_mark(img, oval_size, expected_oval_center.value,
                                            location) >>)
             ELSE Append(scored_ovals, << grid_position, None >>)

\* score_oval_marks_from_grid_layout (lines 609-645).
score_oval_marks_from_grid_layout(img, oval_size, timing_mark_grid, grid_layout, side) ==
    ScoreOvalMarksLoop(img, oval_size, timing_mark_grid, grid_layout.grid_positions, side,
                       Len(grid_layout.grid_positions))


(***************************************************************************)
(* The printed page.  The timing marks of a scanned page lie on a lattice: *)
(* mark (column, row) has its top-left pixel at                            *)
(* (left + column * pitch_x, top + row * pitch_y).  At 200 pixels per inch *)
(* the marks are a quarter of an inch apart both ways: the 12 rows that a  *)
(* Legal page has more than a Letter page fill the 600 rows of pixels that *)
(* its canvas is higher, and 34 columns so spaced fill the 1696 pixels of  *)
(* the width.                                                              *)
(***************************************************************************)
PrintedLattice ==
    [left |-> 4, top |-> 93, pitch_x |-> 50, pitch_y |-> 50,
     mark_width |-> 38, mark_height |-> 13]

LatticeRect(column, row) ==
    RectAt(PrintedLattice.left + column * PrintedLattice.pitch_x,
           PrintedLattice.top + row * PrintedLattice.pitch_y,
           PrintedLattice.mark_width, PrintedLattice.mark_height)

\* The bottom row of a page of `rows` rows, complete: 34 marks, left to right.
BottomRow(rows) == [j \in 1 .. ExpectedCompleteCount |-> LatticeRect(j - 1, rows - 1)]

\* The elements of a list whose index is in `keep`, in order.
RECURSIVE KeepIndexes(_, _, _)
KeepIndexes(rects, keep, j) ==
    IF j > Len(rects)
    THEN << >>
    ELSE (IF j \in keep THEN << rects[j] >> ELSE << >>)
             \o KeepIndexes(rects, keep, j + 1)

\* Index (1-based, from the left) in the complete bottom row of the mark
\* that prints bit i: bit 0 is the second mark from the right.
MarkIndexOfBit(i) == ExpectedCompleteCount - 1 - i

\* The marks printed for a bit pattern: the two corner marks and one mark
\* for every bit that is 1.
MarksForBits(bits, row) ==
    KeepIndexes(row,
        {1, ExpectedCompleteCount} \cup {MarkIndexOfBit(i) : i \in {b \in BitIndexes : bits[b]}},
        1)

\* A list of rects with one rect removed if present, inserted (keeping the
\* list sorted by left) if absent: a mark the scan missed, or a stray one.
ToggleRect(rects, r) ==
    IF \E j \in 1 .. Len(rects) : rects[j] = r
    THEN SelectSeq(rects, LAMBDA x : x # r)
    ELSE SelectSeq(rects, LAMBDA x : x.left < r.left) \o << r >>
             \o SelectSeq(rects, LAMBDA x : x.left >= r.left)

(***************************************************************************)
(* The metadata a ballot printer encodes in the bottom row (section 4.7 of *)
(* the specification; the repository holds only the decoder).              *)
(***************************************************************************)
BitOf(v, k) == ((v \div Pow2(k)) % 2) = 1

Samples(w) == {0, 1, Pow2(w) - 1}

\* The front and the back metadata of the specification's scenarios 2 and 4.
ScenarioFront ==
    [side |-> "Front", batch_or_precinct_number |-> 7, card_number |-> 42,
     sequence_number |-> 0]

ScenarioBack ==
    [side |-> "Back", election_day |-> 4, election_month |-> 11,
     election_year |-> 24, election_type |-> 6]

FrontSources ==
    [ side : {"Front"},
      batch_or_precinct_number : Samples(13),
      card_number : Samples(13),
      sequence_number : Samples(3) ]
    \cup {ScenarioFront}

BackSources ==
    [ side : {"Back"},
      election_day : Samples(5),
      election_month : Samples(4),
      election_year : Samples(7),
      election_type : Samples(5) ]
    \cup {ScenarioBack}

EncodeFrontFields(src) ==
    [i \in BitIndexes |->
        IF i < 2 THEN FALSE
        ELSE IF i < 15 THEN BitOf(src.batch_or_precinct_number, i - 2)
        ELSE IF i < 28 THEN BitOf(src.card_number, i - 15)
        ELSE IF i < 31 THEN BitOf(src.sequence_number, i - 28)
        ELSE TRUE]

EncodeFront(src) ==
    LET fields == EncodeFrontFields(src)
        ones == Cardinality({i \in 2 .. 31 : fields[i]})
    IN  [i \in BitIndexes |-> IF i < 2 THEN BitOf(ones % 4, i) ELSE fields[i]]

EncodeBack(src) ==
    [i \in BitIndexes |->
        IF i < 5 THEN BitOf(src.election_day, i)
        ELSE IF i < 9 THEN BitOf(src.election_month, i - 5)
        ELSE IF i < 16 THEN BitOf(src.election_year, i - 9)
        ELSE IF i < 21 THEN BitOf(src.election_type, i - 16)
        ELSE ENDER_CODE[i - 20]]

Encode(src) == IF src.side = "Front" THEN EncodeFront(src) ELSE EncodeBack(src)

(***************************************************************************)
(* State.                                                                  *)
(***************************************************************************)
VARIABLES
    pc,                     \* the step the page has reached
    source,                 \* the metadata the printer encoded
    flips,                  \* marks toggled since printing
    partial_bottom_rects,   \* Partial.bottom_rects
    complete_bottom_rects,  \* Complete.bottom_rects
    bits_loop,              \* compute_bits_from_bottom_timing_marks' locals
    front_metadata_result,  \* decode_front_metadata_from_bits(&bits)
    back_metadata_result,   \* decode_back_metadata_from_bits(&bits)
    metadata_result,        \* what decode_metadata_from_timing_marks returns
    geometry,               \* the BallotCardGeometry of the page
    missing,                \* printed marks that no best-fit line holds
    partial_timing_marks,   \* find_partial_timing_marks_from_candidate_rects(..)
    completion,             \* find_complete_timing_marks_from_partial_timing_marks' locals
    complete_timing_marks,  \* what it returns
    grid_column,            \* TimingMarkGrid::get for every row of one column
    scans,                  \* what the scanner left at the paths side_a_path, side_b_path
    election,               \* options.election.grid_layouts
    card,                   \* interpret_ballot_card's locals and what it returns
    calc,                   \* a function's arguments, its locals and what it returns
    process_result          \* what process_image returns

completion_vars ==
    << geometry, missing, partial_timing_marks, completion, complete_timing_marks >>

grid_vars == << grid_column >>

card_vars == << scans, election, card >>

calc_vars == << calc >>

page_vars == << process_result >>

vars ==
    << pc, source, flips, partial_bottom_rects, complete_bottom_rects, bits_loop,
       front_metadata_result, back_metadata_result, metadata_result, completion_vars,
       grid_vars, card_vars, calc_vars, page_vars, page_vars >>

NoSource == [side |-> "none"]

\* A page on which candidate detection finds no rect at all.
BlankPage == [side |-> "blank"]

NoResult == Err(NoError)

LetterRows == 41

\* No frame computed yet.
NotCalled == [status |-> "none"]

\* No card handed to interpret_ballot_card.
CardIdle ==
    /\ scans = NotCalled
    /\ election = << >>
    /\ card = NotCalled

CalcIdle == calc = NotCalled

PageIdle == process_result = NotCalled

CompletionIdle ==
    /\ geometry = get_scanned_ballot_card_geometry_8pt5x11
    /\ missing = {}
    /\ partial_timing_marks = NotCalled
    /\ completion = CompletionNotStarted
    /\ complete_timing_marks = NotCalled
    /\ grid_column = NotCalled
    /\ CardIdle
    /\ CalcIdle
    /\ PageIdle

MetadataIdle ==
    /\ source = NoSource
    /\ flips = 0
    /\ front_metadata_result = NoResult
    /\ back_metadata_result = NoResult
    /\ metadata_result = NoResult

(***************************************************************************)
(* decode_metadata_from_timing_marks, step by step, on the bottom row of a *)
(* printed page.                                                           *)
(***************************************************************************)
InitMetadata ==
    /\ pc = "printed"
    /\ source \in FrontSources \cup BackSources
    /\ flips = 0
    /\ complete_bottom_rects = BottomRow(LetterRows)
    /\ partial_bottom_rects = MarksForBits(Encode(source), BottomRow(LetterRows))
    /\ bits_loop = BitsNotStarted
    /\ front_metadata_result = NoResult
    /\ back_metadata_result = NoResult
    /\ metadata_result = NoResult
    /\ CompletionIdle

\* The scan misses the mark of bit i, or shows a stray mark in its place.
ToggleMark(i) ==
    /\ pc = "printed"
    /\ flips < MaxFlips
    /\ flips' = flips + 1
    /\ partial_bottom_rects' =
           ToggleRect(partial_bottom_rects, complete_bottom_rects[MarkIndexOfBit(i)])
    /\ UNCHANGED << completion_vars, grid_vars, card_vars, calc_vars, page_vars, pc, source, complete_bottom_rects, bits_loop,
                    front_metadata_result, back_metadata_result, metadata_result >>

\* Lines 340-343: the bits, or the error returned by `?`.
DecodeMetadataComputeBits ==
    /\ pc = "printed"
    /\ bits_loop' = compute_bits_from_bottom_timing_marks(
                        partial_bottom_rects, complete_bottom_rects)
    /\ pc' = CASE bits_loop'.status = "ok" -> "bits"
               [] bits_loop'.status = "err" -> "done"
               [] OTHER -> "panic"
    /\ metadata_result' =
           IF bits_loop'.status = "err" THEN Err(bits_loop'.error) ELSE metadata_result
    /\ UNCHANGED << completion_vars, grid_vars, card_vars, calc_vars, page_vars, source, flips, partial_bottom_rects, complete_bottom_rects,
                    front_metadata_result, back_metadata_result >>

\* Line 345.
DecodeMetadataFront ==
    /\ pc = "bits"
    /\ front_metadata_result' = decode_front_metadata_from_bits(bits_loop.bits)
    /\ pc' = "front"
    /\ UNCHANGED << completion_vars, grid_vars, card_vars, calc_vars, page_vars, source, flips, partial_bottom_rects, complete_bottom_rects,
                    bits_loop, back_metadata_result, metadata_result >>

\* Line 346.
DecodeMetadataBack ==
    /\ pc = "front"
    /\ back_metadata_result' = decode_back_metadata_from_bits(bits_loop.bits)
    /\ pc' = "back"
    /\ UNCHANGED << completion_vars, grid_vars, card_vars, calc_vars, page_vars, source, flips, partial_bottom_rects, complete_bottom_rects,
                    bits_loop, front_metadata_result, metadata_result >>

\* Lines 348-358.
DecodeMetadataMatch ==
    /\ pc = "back"
    /\ metadata_result' = MatchMetadataResults(front_metadata_result, back_metadata_result)
    /\ pc' = "done"
    /\ UNCHANGED << completion_vars, grid_vars, card_vars, calc_vars, page_vars, source, flips, partial_bottom_rects, complete_bottom_rects,
                    bits_loop, front_metadata_result, back_metadata_result >>

NextMetadata ==
    \/ \E i \in BitIndexes : ToggleMark(i)
    \/ DecodeMetadataComputeBits
    \/ DecodeMetadataFront
    \/ DecodeMetadataBack
    \/ DecodeMetadataMatch

SpecMetadata == InitMetadata /\ [][NextMetadata]_vars


(***************************************************************************)
(* Properties of the metadata decoder.                                     *)
(***************************************************************************)
\* The value of n bits from bit lo on, bit lo least significant.
RECURSIVE LittleEndian(_, _, _)
LittleEndian(bits, lo, n) ==
    IF n = 0
    THEN 0
    ELSE LittleEndian(bits, lo, n - 1) + (IF bits[lo + n - 1] THEN Pow2(n - 1) ELSE 0)

PopCount(bits, lo, hi) == Cardinality({i \in lo .. hi : bits[i]})

\* The metadata a front or back decoding built, accepted or rejected.
MetadataOf(result) ==
    IF result.ok THEN result.value
    ELSE IF result.error.type = "ValueOutOfRange" THEN result.error.metadata.metadata
    ELSE result.error.metadata

FrontDecoded == pc \in {"front", "back", "done"}

BackDecoded == pc \in {"back", "done"}

Matched == pc = "done" /\ bits_loop.status = "ok"

\* C1: decode_metadata_from_timing_marks decodes the same 32 bits as front
\* and as back, and returns Front when only the front decoding validates,
\* Back when only the back decoding validates, AmbiguousMetadata when both
\* do, and the front decoding's error (never InvalidEnderCode) when neither.
C1_DecodeMetadataMatch ==
    Matched =>
        /\ MetadataOf(front_metadata_result).bits = bits_loop.bits
        /\ MetadataOf(back_metadata_result).bits = bits_loop.bits
        /\ (front_metadata_result.ok /\ ~back_metadata_result.ok) =>
               metadata_result =
                   Ok([side |-> "Front", metadata |-> front_metadata_result.value])
        /\ (~front_metadata_result.ok /\ back_metadata_result.ok) =>
               metadata_result =
                   Ok([side |-> "Back", metadata |-> back_metadata_result.value])
        /\ (front_metadata_result.ok /\ back_metadata_result.ok) =>
               /\ ~metadata_result.ok
               /\ metadata_result.error.type = "AmbiguousMetadata"
        /\ (~front_metadata_result.ok /\ ~back_metadata_result.ok) =>
               /\ metadata_result = Err(front_metadata_result.error)
               /\ metadata_result.error.type # "InvalidEnderCode"

\* A page on which neither decoding validated has been decoded.
C1_Witness ==
    /\ Matched
    /\ ~front_metadata_result.ok
    /\ ~back_metadata_result.ok
    /\ ~metadata_result.ok

\* C2: the front decoding is accepted exactly when popcount(bits[2..32])
\* mod 4 equals the value of bits 0..1 (bit 0 least significant) and bit 31
\* is 1; an accepted front metadata has equal checksums and start_bit 1.
C2_FrontAcceptedIff ==
    FrontDecoded =>
        LET bits == bits_loop.bits
        IN  /\ front_metadata_result.ok <=>
                   /\ PopCount(bits, 2, 31) % 4 = FromBool(bits[0]) + 2 * FromBool(bits[1])
                   /\ bits[31]
            /\ front_metadata_result.ok =>
                   /\ front_metadata_result.value.computed_mod_4_checksum
                          = front_metadata_result.value.mod_4_checksum
                   /\ front_metadata_result.value.start_bit = 1

\* A pattern with a matching checksum and start bit 0 has been rejected.
C2_Witness ==
    /\ FrontDecoded
    /\ ~front_metadata_result.ok
    /\ front_metadata_result.error.type = "ValueOutOfRange"

\* C3: accepted or rejected, the front metadata holds the little-endian
\* values of bits 2..14, 15..27 and 28..30, bit 31 as start_bit, and the
\* input pattern unchanged.
C3_FrontFields ==
    FrontDecoded =>
        LET bits == bits_loop.bits
            m == MetadataOf(front_metadata_result)
        IN  /\ m.batch_or_precinct_number = LittleEndian(bits, 2, 13)
            /\ m.card_number = LittleEndian(bits, 15, 13)
            /\ m.sequence_number = LittleEndian(bits, 28, 3)
            /\ m.start_bit = FromBool(bits[31])
            /\ m.bits = bits

\* A rejected pattern whose card number has only its lowest bit set.
C3_Witness ==
    /\ FrontDecoded
    /\ ~front_metadata_result.ok
    /\ MetadataOf(front_metadata_result).card_number = 1
    /\ bits_loop.bits[15]

\* C4: the back decoding is accepted exactly when bits 21..31, in index
\* order, are 0,1,1,1,1,0,1,1,1,1,0; otherwise it returns InvalidEnderCode
\* carrying the back metadata decoded from the same bits.
C4_BackAcceptedIff ==
    BackDecoded =>
        LET bits == bits_loop.bits
            m == MetadataOf(back_metadata_result)
        IN  /\ back_metadata_result.ok <=>
                   << FromBool(bits[21]), FromBool(bits[22]), FromBool(bits[23]),
                      FromBool(bits[24]), FromBool(bits[25]), FromBool(bits[26]),
                      FromBool(bits[27]), FromBool(bits[28]), FromBool(bits[29]),
                      FromBool(bits[30]), FromBool(bits[31]) >>
                       = << 0, 1, 1, 1, 1, 0, 1, 1, 1, 1, 0 >>
            /\ ~back_metadata_result.ok =>
                   back_metadata_result.error.type = "InvalidEnderCode"
            /\ m.bits = bits
            /\ m.election_day = LittleEndian(bits, 0, 5)
            /\ m.election_month = LittleEndian(bits, 5, 4)
            /\ m.election_year = LittleEndian(bits, 9, 7)
            /\ m.election_type = LittleEndian(bits, 16, 5)
            /\ \A k \in 1 .. 11 : m.ender_code[k] = bits[20 + k]

\* A back pattern whose ender code lost its last bit has been rejected.
C4_Witness ==
    /\ BackDecoded
    /\ source.side = "Back"
    /\ bits_loop.bits[31]
    /\ ~back_metadata_result.ok
    /\ back_metadata_result.error.type = "InvalidEnderCode"

\* C5: an encoded front (back) struct, printed and scanned unchanged, is
\* accepted by the front (back) decoder with the field values encoded.
C5_RoundTrip ==
    (BackDecoded /\ flips = 0) =>
        /\ bits_loop.bits = Encode(source)
        /\ source.side = "Front" =>
               /\ front_metadata_result.ok
               /\ front_metadata_result.value.batch_or_precinct_number
                      = source.batch_or_precinct_number
               /\ front_metadata_result.value.card_number = source.card_number
               /\ front_metadata_result.value.sequence_number = source.sequence_number
               /\ front_metadata_result.value.start_bit = 1
        /\ source.side = "Back" =>
               /\ back_metadata_result.ok
               /\ back_metadata_result.value.election_day = source.election_day
               /\ back_metadata_result.value.election_month = source.election_month
               /\ back_metadata_result.value.election_year = source.election_year
               /\ back_metadata_result.value.election_type = source.election_type
               /\ back_metadata_result.value.ender_code = ENDER_CODE

\* The back struct of 4 November 2024, election type G, has been decoded.
C5_Witness ==
    /\ BackDecoded
    /\ flips = 0
    /\ source = ScenarioBack
    /\ back_metadata_result.ok


(***************************************************************************)
(* compute_bits_from_bottom_timing_marks, iteration by iteration, on       *)
(* bottom rows with missed and stray marks and on complete rows of 33, 34  *)
(* and 35 marks.                                                           *)
(***************************************************************************)
RowOfLength(n) == [j \in 1 .. n |-> LatticeRect(j - 1, LetterRows - 1)]

CompleteRows ==
    {RowOfLength(n) : n \in (ExpectedCompleteCount - 1) .. (ExpectedCompleteCount + 1)}

\* A detected rect that lies between mark j and mark j + 1 of the bottom
\* row: no rect of the complete row equals it.
StrayRect(j) ==
    LET r == LatticeRect(j - 1, LetterRows - 1)
    IN  RectAt(r.left + PrintedLattice.pitch_x \div 2, r.top, r.width, r.height)

\* The detected bottom rows the walk starts from: no mark, the two corner
\* marks, every mark, and the rows printed for a front and a back page.
PartialRows ==
    { << >>,
      MarksForBits(NoBits, BottomRow(LetterRows)),
      BottomRow(LetterRows),
      MarksForBits(Encode(ScenarioFront), BottomRow(LetterRows)),
      MarksForBits(Encode(ScenarioBack), BottomRow(LetterRows)) }

InitBits ==
    /\ pc = "bits_input"
    /\ complete_bottom_rects \in CompleteRows
    /\ partial_bottom_rects \in PartialRows
    /\ bits_loop = BitsNotStarted
    /\ MetadataIdle
    /\ CompletionIdle

\* The scan misses mark j of the bottom row (a corner mark included), or
\* detects it where the base row had none.
ToggleBottomMark(j) ==
    /\ pc = "bits_input"
    /\ flips < MaxFlips
    /\ flips' = flips + 1
    /\ partial_bottom_rects' =
           ToggleRect(partial_bottom_rects, LatticeRect(j - 1, LetterRows - 1))
    /\ UNCHANGED << completion_vars, grid_vars, card_vars, calc_vars, page_vars, pc, source, complete_bottom_rects, bits_loop,
                    front_metadata_result, back_metadata_result, metadata_result >>

\* The scan detects a stray rect between two marks of the bottom row.
ToggleStrayMark(j) ==
    /\ pc = "bits_input"
    /\ flips < MaxFlips
    /\ flips' = flips + 1
    /\ partial_bottom_rects' = ToggleRect(partial_bottom_rects, StrayRect(j))
    /\ UNCHANGED << completion_vars, grid_vars, card_vars, calc_vars, page_vars, pc, source, complete_bottom_rects, bits_loop,
                    front_metadata_result, back_metadata_result, metadata_result >>

\* Lines 182-209.
ComputeBitsBegin ==
    /\ pc = "bits_input"
    /\ bits_loop' = ComputeBitsStart(partial_bottom_rects, complete_bottom_rects)
    /\ pc' = IF bits_loop'.status = "running" THEN "bits_loop" ELSE "bits_done"
    /\ UNCHANGED << completion_vars, grid_vars, card_vars, calc_vars, page_vars, source, flips, partial_bottom_rects, complete_bottom_rects,
                    front_metadata_result, back_metadata_result, metadata_result >>

\* Lines 211-225.
ComputeBitsStep ==
    /\ pc = "bits_loop"
    /\ bits_loop' = ComputeBitsIteration(partial_bottom_rects, complete_bottom_rects,
                                         bits_loop)
    /\ pc' = IF bits_loop'.status = "running" THEN "bits_loop" ELSE "bits_done"
    /\ UNCHANGED << completion_vars, grid_vars, card_vars, calc_vars, page_vars, source, flips, partial_bottom_rects, complete_bottom_rects,
                    front_metadata_result, back_metadata_result, metadata_result >>

NextBits ==
    \/ \E j \in 1 .. ExpectedCompleteCount : ToggleBottomMark(j)
    \/ \E j \in 1 .. (ExpectedCompleteCount - 1) : ToggleStrayMark(j)
    \/ ComputeBitsBegin
    \/ ComputeBitsStep

SpecBits == InitBits /\ [][NextBits]_vars

(***************************************************************************)
(* Properties of compute_bits_from_bottom_timing_marks.                    *)
(***************************************************************************)
\* The two walks of the claim: element i (from 0) of each list read from
\* right to left after its rightmost element is dropped.
CompleteWalk(i) == complete_bottom_rects[Len(complete_bottom_rects) - 1 - i]

PartialWalk(k) == partial_bottom_rects[Len(partial_bottom_rects) - 1 - k]

PartialWalkLen == Len(partial_bottom_rects) - 1

\* The bits that are true when bit i, i + 1, ... are decided with the
\* partial cursor at k: bit i is true exactly when a partial rect is left
\* and completed rect i equals it, and only then does the cursor advance.
RECURSIVE WalkBits(_, _)
WalkBits(i, k) ==
    IF i = METADATA_BITS \/ k >= PartialWalkLen
    THEN {}
    ELSE IF CompleteWalk(i) = PartialWalk(k)
    THEN {i} \cup WalkBits(i + 1, k + 1)
    ELSE WalkBits(i + 1, k)

TrueBits(bits, below) == {i \in BitIndexes : i < below /\ bits[i]}

\* C6: with 34 completed and at least 2 partial rects, bit i is true
\* exactly when the i-th completed rect of the right-to-left walk equals
\* the current partial rect; the partial cursor advances only on a match,
\* and every bit after the partial rects are exhausted is false.
C6_BitsFollowWalk ==
    /\ (pc = "bits_done" /\ bits_loop.status = "ok") =>
           TrueBits(bits_loop.bits, METADATA_BITS) = WalkBits(0, 0)
    /\ pc = "bits_loop" =>
           LET consumed == PartialWalkLen - 1 - bits_loop.partial_remaining
           IN  /\ consumed = Cardinality(TrueBits(bits_loop.bits, bits_loop.bit))
               /\ bits_loop.current_partial = PartialWalk(consumed)
               /\ bits_loop.current_complete = CompleteWalk(bits_loop.bit)
               /\ \A i \in BitIndexes : i >= bits_loop.bit => ~bits_loop.bits[i]

\* The partial rects ran out before bit 31: the walk ended on a match and
\* left the remaining bits false.
C6_Witness ==
    /\ pc = "bits_done"
    /\ bits_loop.status = "ok"
    /\ bits_loop.bit < METADATA_BITS - 1
    /\ bits_loop.bits[bits_loop.bit]
    /\ Cardinality(TrueBits(bits_loop.bits, METADATA_BITS)) > 1

\* C7 as claimed: bit 0 is decided by the second-from-right completed mark
\* and bit 31 by the leftmost completed mark.
C7_Bit31Leftmost ==
    pc = "bits_loop" =>
        /\ bits_loop.bit = 0 =>
               bits_loop.current_complete
                   = complete_bottom_rects[Len(complete_bottom_rects) - 1]
        /\ bits_loop.bit = METADATA_BITS - 1 =>
               bits_loop.current_complete = complete_bottom_rects[1]

\* C7 as amended: bit 0 is decided by the second-from-right completed mark
\* and bit 31 by the second-from-left completed mark; the leftmost
\* completed mark decides no bit.
C7_Bit31SecondFromLeft ==
    pc = "bits_loop" =>
        /\ bits_loop.bit = 0 =>
               bits_loop.current_complete
                   = complete_bottom_rects[Len(complete_bottom_rects) - 1]
        /\ bits_loop.bit = METADATA_BITS - 1 =>
               bits_loop.current_complete = complete_bottom_rects[2]
        /\ bits_loop.current_complete # complete_bottom_rects[1]

\* Bit 31 is about to be set by the second mark from the left.
C7_Witness ==
    /\ pc = "bits_loop"
    /\ bits_loop.bit = METADATA_BITS - 1
    /\ bits_loop.current_complete = bits_loop.current_partial
    /\ bits_loop.current_complete = complete_bottom_rects[2]

\* C8: InvalidTimingMarkCount{34, n} when the completed list has n # 34
\* rects, otherwise InvalidTimingMarkCount{2, m} when the partial list has
\* m < 2 rects, otherwise 32 bits; neither unreachable branch is taken.
C8_CountErrors ==
    /\ bits_loop.status # "unreachable"
    /\ pc = "bits_done" =>
           LET n == Len(complete_bottom_rects)
               m == Len(partial_bottom_rects)
           IN  IF n # 34
               THEN /\ bits_loop.status = "err"
                    /\ bits_loop.error = [type |-> "InvalidTimingMarkCount",
                                          expected |-> 34, actual |-> n]
               ELSE IF m < 2
               THEN /\ bits_loop.status = "err"
                    /\ bits_loop.error = [type |-> "InvalidTimingMarkCount",
                                          expected |-> 2, actual |-> m]
               ELSE /\ bits_loop.status = "ok"
                    /\ DOMAIN bits_loop.bits = 0 .. 31

\* A completed row of 34 marks with a single partial mark was refused.
C8_Witness ==
    /\ pc = "bits_done"
    /\ Len(complete_bottom_rects) = 34
    /\ Len(partial_bottom_rects) = 1
    /\ bits_loop.status = "err"
    /\ bits_loop.error.expected = 2


(***************************************************************************)
(* find_partial_timing_marks_from_candidate_rects from its best-fit lines  *)
(* on, then find_complete_timing_marks_from_partial_timing_marks: on       *)
(* scanned pages of both paper sizes of which some border marks are on no  *)
(* best-fit line, and on frames of at most one mark per side.              *)
(***************************************************************************)
Mark(column, row) == [column |-> column, row |-> row]

LastColumn == ExpectedCompleteCount - 1

LastRow(g) == g.grid_size.height - 1

\* The border marks that a scan may miss: corner marks, their neighbours
\* and marks inside a side.
MissableMarks(g) ==
    { Mark(0, 0), Mark(1, 0), Mark(LastColumn \div 2, 0),
      Mark(0, 1), Mark(LastColumn, LastRow(g) \div 2),
      Mark(LastColumn, LastRow(g)), Mark(LastColumn - 1, LastRow(g)),
      Mark(0, LastRow(g) - 1) }

\* The marks printed in the bottom row: all of them on a page that carries
\* no metadata, else the marks of the metadata bits.
PrintedBottomRow(g, src) ==
    IF src = NoSource
    THEN BottomRow(g.grid_size.height)
    ELSE MarksForBits(Encode(src), BottomRow(g.grid_size.height))

\* The four best-fit lines of a scanned page (section 4.3 of the
\* specification; find_best_line_through_items is not in the repository):
\* each holds the marks of its border of the lattice that were printed and
\* detected, and none on a page without candidate rects.
BestFitLines(g, src, lost) ==
    LET lost_rects == {LatticeRect(m.column, m.row) : m \in lost}
        detected(rects) == SelectSeq(rects, LAMBDA r : r \notin lost_rects)
    IN  IF src = BlankPage
        THEN [top |-> << >>, bottom |-> << >>, left |-> << >>, right |-> << >>]
        ELSE
        [ top |-> detected([j \in 1 .. g.grid_size.width |-> LatticeRect(j - 1, 0)]),
          bottom |-> detected(PrintedBottomRow(g, src)),
          left |-> detected([j \in 1 .. g.grid_size.height |-> LatticeRect(0, j - 1)]),
          right |->
              detected([j \in 1 .. g.grid_size.height |-> LatticeRect(LastColumn, j - 1)]) ]

\* The candidate rects that find_timing_mark_shapes returns for the page:
\* the rects its best-fit lines are drawn through.
contour_rects ==
    LET lines == BestFitLines(geometry, source, missing)
        border == lines.top \o lines.bottom
    IN  border \o SelectSeq(lines.left \o lines.right,
                      LAMBDA r : \A j \in 1 .. Len(border) : border[j] # r)

\* Frames of at most one mark per side, the same mark on every side that
\* has one; the corner rects follow from the sides as on lines 242-261.
SingleMarkFrames(g) ==
    LET r == LatticeRect(0, 0)
        c == center_of_rect(r)
        sides == {<< >>, << r >>}
    IN  { PartialTimingMarks(g, << c, c, c, c >>, top, bottom, left, right) :
              top \in sides, bottom \in sides, left \in sides, right \in sides }

InitCompletion ==
    /\ geometry \in Geometries
    /\ missing = {}
    /\ completion = CompletionNotStarted
    /\ complete_timing_marks = NotCalled
    /\ grid_column = NotCalled
    /\ CardIdle
    /\ CalcIdle
    /\ PageIdle
    /\ \/ /\ pc = "scanned"
          /\ source \in {NoSource, ScenarioFront, ScenarioBack, BlankPage}
          /\ partial_timing_marks = NotCalled
       \/ /\ pc = "partial"
          /\ source = NoSource
          /\ \E frame \in SingleMarkFrames(geometry) :
                 partial_timing_marks = [status |-> "some", value |-> frame]
    /\ flips = 0
    /\ partial_bottom_rects = << >>
    /\ complete_bottom_rects = << >>
    /\ bits_loop = BitsNotStarted
    /\ front_metadata_result = NoResult
    /\ back_metadata_result = NoResult
    /\ metadata_result = NoResult

\* The scan loses a printed border mark.
MissMark(m) ==
    /\ pc = "scanned"
    /\ source # BlankPage
    /\ Cardinality(missing) < MaxMissing
    /\ m \in MissableMarks(geometry) \ missing
    /\ m.row = LastRow(geometry)
           => \E j \in 1 .. Len(PrintedBottomRow(geometry, source)) :
                  PrintedBottomRow(geometry, source)[j] = LatticeRect(m.column, m.row)
    /\ missing' = missing \cup {m}
    /\ UNCHANGED << grid_vars, card_vars, calc_vars, page_vars, pc, source, flips, partial_bottom_rects, complete_bottom_rects,
                    bits_loop, front_metadata_result, back_metadata_result,
                    metadata_result, geometry, partial_timing_marks, completion,
                    complete_timing_marks >>

\* The call of find_partial_timing_marks_from_candidate_rects and the match
\* on what it returns (main.rs, lines 236-241): the best-fit lines of the
\* candidate rects (timing_marks.rs, lines 155-182), then lines 184-355.
FindPartial ==
    /\ pc = "scanned"
    /\ partial_timing_marks' =
           FindPartialFromLines(geometry, BestFitLines(geometry, source, missing))
    /\ pc' = CASE partial_timing_marks'.status = "some" -> "partial"
               [] partial_timing_marks'.status = "none" -> "returned"
               [] OTHER -> "panic"
    /\ process_result' =
           IF partial_timing_marks'.status = "none"
           THEN Err(MissingTimingMarks(contour_rects))
           ELSE process_result
    /\ UNCHANGED << grid_vars, card_vars, calc_vars, source, flips, partial_bottom_rects, complete_bottom_rects,
                    bits_loop, front_metadata_result, back_metadata_result,
                    metadata_result, geometry, missing, completion,
                    complete_timing_marks >>

\* Lines 359-405.
FindCompleteBegin ==
    /\ pc = "partial"
    /\ LET start == FindCompleteStart(partial_timing_marks.value, geometry)
       IN  IF start.returned
           THEN /\ complete_timing_marks' = start.value
                /\ pc' = "complete"
                /\ UNCHANGED completion
           ELSE /\ completion' = start.completion
                /\ pc' = "infer"
                /\ UNCHANGED complete_timing_marks
    /\ UNCHANGED << grid_vars, card_vars, calc_vars, page_vars, source, flips, partial_bottom_rects, complete_bottom_rects,
                    bits_loop, front_metadata_result, back_metadata_result,
                    metadata_result, geometry, missing, partial_timing_marks >>

\* Lines 485-518: one iteration of the while loop for the side that is
\* being inferred.
InferIterate ==
    /\ pc = "infer"
    /\ Len(completion.lines) < Len(Sides)
    /\ InferMissingContinues(completion.loop)
    /\ completion' = CompletionState(completion.median_distance, completion.lines,
                         InferMissingIteration(completion.loop, geometry))
    /\ UNCHANGED << grid_vars, card_vars, calc_vars, page_vars, pc, source, flips, partial_bottom_rects, complete_bottom_rects,
                    bits_loop, front_metadata_result, back_metadata_result,
                    metadata_result, geometry, missing, partial_timing_marks,
                    complete_timing_marks >>

\* Line 520 (or 477): the side's line is returned, and the next side is
\* entered (lines 407-438).
InferReturn ==
    /\ pc = "infer"
    /\ Len(completion.lines) < Len(Sides)
    /\ ~InferMissingContinues(completion.loop)
    /\ LET lines == Append(completion.lines, completion.loop.inferred_timing_marks)
       IN  completion' =
               IF Len(lines) < Len(Sides)
               THEN EnterSide(partial_timing_marks.value, geometry,
                        completion.median_distance, lines)
               ELSE [median_distance |-> completion.median_distance, lines |-> lines]
    /\ UNCHANGED << grid_vars, card_vars, calc_vars, page_vars, pc, source, flips, partial_bottom_rects, complete_bottom_rects,
                    bits_loop, front_metadata_result, back_metadata_result,
                    metadata_result, geometry, missing, partial_timing_marks,
                    complete_timing_marks >>

\* Lines 440-462.
FindCompleteEnd ==
    /\ pc = "infer"
    /\ Len(completion.lines) = Len(Sides)
    /\ complete_timing_marks' =
           FindCompleteFinish(partial_timing_marks.value, geometry, completion.lines)
    /\ pc' = "complete"
    /\ UNCHANGED << grid_vars, card_vars, calc_vars, page_vars, source, flips, partial_bottom_rects, complete_bottom_rects,
                    bits_loop, front_metadata_result, back_metadata_result,
                    metadata_result, geometry, missing, partial_timing_marks,
                    completion >>

NextCompletion ==
    \/ \E m \in UNION {MissableMarks(g) : g \in Geometries} : MissMark(m)
    \/ FindPartial
    \/ FindCompleteBegin
    \/ InferIterate
    \/ InferReturn
    \/ FindCompleteEnd

SpecCompletion == InitCompletion /\ [][NextCompletion]_vars


(***************************************************************************)
(* Properties of the completion.                                           *)
(***************************************************************************)
\* The frame that completion was called with.
CalledFrame == partial_timing_marks.value

CompletionCalled == pc \in {"infer", "complete"}

CornerRectAbsent(p) ==
    \E rect \in {p.top_left_rect, p.top_right_rect,
                 p.bottom_left_rect, p.bottom_right_rect} : rect = None

\* No side holds two marks, so no two marks are adjacent.
NoAdjacentMarks(p) ==
    \A rects \in {p.top_rects, p.bottom_rects, p.left_rects, p.right_rects} :
        Len(rects) < 2

\* A rect of the list that is none of the detected rects.
HasInferredRect(rects, detected) ==
    \E j \in 1 .. Len(rects) : \A k \in 1 .. Len(detected) : rects[j] # detected[k]

C10_FailsBeforeInference ==
    (CompletionCalled /\ (CornerRectAbsent(CalledFrame) \/ NoAdjacentMarks(CalledFrame)))
        => /\ pc = "complete"
           /\ complete_timing_marks = None
           /\ completion = CompletionNotStarted

\* Completion has returned none for a frame that has its four corner rects
\* and no two adjacent marks.
C10_Witness ==
    /\ pc = "complete"
    /\ ~CornerRectAbsent(CalledFrame)
    /\ NoAdjacentMarks(CalledFrame)
    /\ complete_timing_marks = None


(***************************************************************************)
(* TimingMarkGrid::get on the grids of the complete frames that the        *)
(* completion returned: a column at a time, for every row of the grid and  *)
(* up to MaxBeyond rows and columns beyond it.                             *)
(***************************************************************************)
\* The grid of the page (main.rs, line 311).
PageGrid == TimingMarkGrid(geometry, complete_timing_marks.value)

\* The rows that get is called with: row y is element y + 1.
RowsAsked == geometry.grid_size.height + MaxBeyond

\* get(column, y) for y in turn, as the inner loop of
\* draw_timing_mark_grid_debug_image_mut (debug.rs, lines 260-264) calls
\* it, continued beyond the last row.
GridGetColumn(column) ==
    /\ pc = "complete"
    /\ complete_timing_marks.some
    /\ column < geometry.grid_size.width + MaxBeyond
    /\ grid_column' =
           [ status |-> "called", column |-> column,
             points |-> [y \in 1 .. RowsAsked |->
                            TimingMarkGridGet(PageGrid, column, y - 1)] ]
    /\ pc' = "grid"
    /\ UNCHANGED << card_vars, calc_vars, page_vars, source, flips, partial_bottom_rects, complete_bottom_rects,
                    bits_loop, front_metadata_result, back_metadata_result,
                    metadata_result, completion_vars >>

MaxGridWidth == ExpectedCompleteCount

NextGrid ==
    \/ NextCompletion
    \/ \E column \in 0 .. (MaxGridWidth + MaxBeyond - 1) : GridGetColumn(column)

SpecGrid == InitCompletion /\ [][NextGrid]_vars

GridGetCalled == pc = "grid"

\* What get(grid_column.column, row) returned.
GridPoint(row) == grid_column.points[row + 1]

\* C11: on the grid of a complete frame that completion returned,
\* get(c, r) returns a point if and only if c < grid_w and r < grid_h.
C11_GridGetDefined ==
    GridGetCalled =>
        \A row \in 0 .. (RowsAsked - 1) :
            GridPoint(row).some
                <=> (grid_column.column < geometry.grid_size.width
                        /\ row < geometry.grid_size.height)

\* Points were returned for the last column of the grid of a page that
\* lost a mark, the last row included, and none for the row beyond.
C11_Witness ==
    /\ GridGetCalled
    /\ missing # {}
    /\ grid_column.column = geometry.grid_size.width - 1
    /\ GridPoint(geometry.grid_size.height - 1).some
    /\ ~GridPoint(geometry.grid_size.height).some


\* Two points at most one pixel apart.
WithinOnePixel(p1, p2) == SquaredDistance(p1, p2) <= Scale * Scale

\* The point returned for a row is within one pixel of a corner point.
GridPointNear(row, corner) ==
    /\ GridPoint(row).some
    /\ WithinOnePixel(GridPoint(row).value, corner)

Paths == {"side_a", "side_b"}

Scan(opens, dimensions, marks, printed, damaged) ==
    [opens |-> opens, dimensions |-> dimensions, marks |-> marks, printed |-> printed,
     damaged |-> damaged]

\* A front of another card than ScenarioFront's.
OtherFront == [ScenarioFront EXCEPT !.card_number = 7]

\* The scans a path may hold: a file that is no image, an image of no
\* ballot paper, pages whose timing marks are not found, a page whose
\* bottom row was damaged, and fronts and backs of both paper sizes.
PageScans ==
    { Scan(FALSE, Size(0, 0), "none", NoSource, FALSE),
      Scan(TRUE, Size(1000, 2000), "none", NoSource, FALSE),
      Scan(TRUE, Size(1696, 2200), "no_partial", NoSource, FALSE),
      Scan(TRUE, Size(1700, 2200), "no_complete", NoSource, FALSE),
      Scan(TRUE, Size(1696, 2200), "found", ScenarioFront, TRUE) }
    \cup { Scan(TRUE, dimensions, "found", printed, FALSE) :
               dimensions \in {Size(1696, 2200), Size(1696, 2800)},
               printed \in {ScenarioFront, OtherFront, ScenarioBack} }

GridPosition(side, column, row, option_id) ==
    [side |-> side, column |-> column, row |-> row, option_id |-> option_id]

GridLayout(ballot_style_id, grid_positions) ==
    [ballot_style_id |-> ballot_style_id, grid_positions |-> grid_positions]

\* Layouts: of the card of ScenarioFront, with positions of both sides, one
\* past the last column and one on a row that only Legal paper has; a
\* second layout of the same ballot style; a layout of another style.
CardLayout ==
    GridLayout(BallotStyleIdOfCard(ScenarioFront.card_number),
        << GridPosition("Front", 5, 10, "a"), GridPosition("Back", 7, 12, "b"),
           GridPosition("Front", ExpectedCompleteCount, 3, "c"),
           GridPosition("Back", 20, 45, "d"), GridPosition("Front", 12, 30, "e"),
           GridPosition("Front", 5, 10, "f") >>)

CardLayoutAgain ==
    GridLayout(BallotStyleIdOfCard(ScenarioFront.card_number),
        << GridPosition("Back", 9, 9, "g") >>)

OtherLayout ==
    GridLayout(<< "precinct-", 1 >>, << GridPosition("Front", 2, 2, "h") >>)

Elections ==
    { << >>, << OtherLayout >>, << OtherLayout, CardLayout, CardLayoutAgain >> }

\* The frame of a page whose every border mark is in place.
PrintedCompleteTimingMarks(g) ==
    [ top_rects |-> [j \in 1 .. g.grid_size.width |-> LatticeRect(j - 1, 0)],
      bottom_rects |-> [j \in 1 .. g.grid_size.width |-> LatticeRect(j - 1, LastRow(g))],
      left_rects |-> [j \in 1 .. g.grid_size.height |-> LatticeRect(0, j - 1)],
      right_rects |-> [j \in 1 .. g.grid_size.height |-> LatticeRect(LastColumn, j - 1)] ]

\* The candidate rects of a scan: a speck where no frame is found, else the
\* marks in the corners.
CandidateRects(scan, g) ==
    IF scan.marks = "no_partial"
    THEN << LatticeRect(3, 3) >>
    ELSE << LatticeRect(0, 0), LatticeRect(LastColumn, 0), LatticeRect(0, LastRow(g)),
            LatticeRect(LastColumn, LastRow(g)) >>

\* The bottom row detected on a scan: the marks printed for the metadata,
\* less the mark of bit 2 on a damaged page.
ScannedBottomRow(scan, g) ==
    LET printed == PrintedBottomRow(g, scan.printed)
    IN  IF scan.damaged
        THEN ToggleRect(printed, BottomRow(g.grid_size.height)[MarkIndexOfBit(2)])
        ELSE printed

\* decode_metadata_from_timing_marks (metadata.rs, lines 336-359).
decode_metadata_from_timing_marks(partial_bottom, complete_bottom) ==
    LET bits == compute_bits_from_bottom_timing_marks(partial_bottom, complete_bottom)
    IN  CASE bits.status = "ok" ->
                 MatchMetadataResults(decode_front_metadata_from_bits(bits.bits),
                                      decode_back_metadata_from_bits(bits.bits))
          [] bits.status = "err" -> Err(bits.error)
          [] OTHER -> [ok |-> FALSE, error |-> [type |-> "panic"]]

\* The stages of a page in the order of section 4 of the specification.
Stages ==
    << "open", "geometry", "candidates", "partial", "complete", "metadata", "layout",
       "score" >>

\* What a call returned.
Returned(v) == [status |-> "returned", value |-> v]

FindNotStarted == [at |-> "start", result |-> NotCalled]

CardNotStarted ==
    [ loads |-> [path \in Paths |-> NotCalled],
      loaded |-> NotCalled,
      find |-> [path \in Paths |-> FindNotStarted],
      ran |-> [path \in Paths |-> << >>],
      sides |-> NotCalled,
      grid_layout |-> NotCalled,
      scored |-> [side \in {"Front", "Back"} |-> NotCalled],
      result |-> NotCalled ]

InitCard ==
    /\ pc = "card_load"
    /\ scans \in [Paths -> PageScans]
    /\ election \in Elections
    /\ card = CardNotStarted
    /\ calc = NotCalled
    /\ process_result = NotCalled
    /\ geometry = get_scanned_ballot_card_geometry_8pt5x11
    /\ missing = {}
    /\ partial_timing_marks = NotCalled
    /\ completion = CompletionNotStarted
    /\ complete_timing_marks = NotCalled
    /\ grid_column = NotCalled
    /\ bits_loop = BitsNotStarted
    /\ partial_bottom_rects = << >>
    /\ complete_bottom_rects = << >>
    /\ MetadataIdle

card_unchanged ==
    << source, flips, partial_bottom_rects, complete_bottom_rects, bits_loop,
       front_metadata_result, back_metadata_result, metadata_result, completion_vars,
       grid_vars, calc_vars, page_vars, scans, election >>

\* One task of the join of lines 82-85.
LoadBallotPageImage(path) ==
    /\ pc = "card_load"
    /\ card.loads[path] = NotCalled
    /\ card' = [card EXCEPT
           !.loads[path] = load_ballot_page_image(path, scans[path]),
           !.ran[path] = IF scans[path].opens THEN << "open", "geometry" >> ELSE << "open" >>]
    /\ UNCHANGED << pc, card_unchanged >>

\* The load going on to the timing marks whatever the pages' results.
LoadBallotCardImagesGoesOn ==
    /\ pc = "card_load"
    /\ \A path \in Paths : card.loads[path] # NotCalled
    /\ card' = [card EXCEPT !.loaded = LoadJoin("side_a", "side_b", card.loads["side_a"],
                                                card.loads["side_b"])]
    /\ pc' = "card_find"
    /\ UNCHANGED card_unchanged

\* Lines 87-103, and the `?` of line 138.
LoadBallotCardImages ==
    /\ pc = "card_load"
    /\ \A path \in Paths : card.loads[path] # NotCalled
    /\ LET loaded == LoadJoin("side_a", "side_b", card.loads["side_a"], card.loads["side_b"])
       IN  /\ card' = [card EXCEPT !.loaded = loaded,
                                   !.result = IF loaded.ok THEN NotCalled ELSE Err(loaded.error)]
           /\ pc' = IF loaded.ok THEN "card_find" ELSE "card_returned"
    /\ UNCHANGED card_unchanged

\* find_timing_mark_grid, one task of the join of lines 151-154: candidate
\* detection.
FindPageShapes(path) ==
    /\ pc = "card_find"
    /\ card.find[path].at = "start"
    /\ card' = [card EXCEPT !.find[path].at = "candidates",
                            !.ran[path] = Append(@, "candidates")]
    /\ UNCHANGED << pc, card_unchanged >>

\* find_timing_mark_grid: the partial frame, or MissingTimingMarks.
FindPagePartial(path) ==
    /\ pc = "card_find"
    /\ card.find[path].at = "candidates"
    /\ card' = [card EXCEPT
           !.find[path] =
               IF scans[path].marks = "no_partial"
               THEN [at |-> "returned",
                     result |-> Err(MissingTimingMarks(
                                        CandidateRects(scans[path], card.loaded.value.geometry)))]
               ELSE [at |-> "partial", result |-> NotCalled],
           !.ran[path] = Append(@, "partial")]
    /\ UNCHANGED << pc, card_unchanged >>

\* find_timing_mark_grid: the complete frame, or MissingTimingMarks.
FindPageComplete(path) ==
    /\ pc = "card_find"
    /\ card.find[path].at = "partial"
    /\ card' = [card EXCEPT
           !.find[path] =
               IF scans[path].marks = "no_complete"
               THEN [at |-> "returned",
                     result |-> Err(MissingTimingMarks(
                                        CandidateRects(scans[path], card.loaded.value.geometry)))]
               ELSE [at |-> "complete", result |-> NotCalled],
           !.ran[path] = Append(@, "complete")]
    /\ UNCHANGED << pc, card_unchanged >>

\* find_timing_mark_grid: the metadata of the bottom row, and the grid.
FindPageMetadata(path) ==
    /\ pc = "card_find"
    /\ card.find[path].at = "complete"
    /\ LET g == card.loaded.value.geometry
           metadata == decode_metadata_from_timing_marks(
                           ScannedBottomRow(scans[path], g), BottomRow(g.grid_size.height))
       IN  card' = [card EXCEPT
               !.find[path] =
                   [at |-> "returned",
                    result |->
                        IF metadata.ok
                        THEN Ok([geometry |-> g,
                                 complete_timing_marks |-> PrintedCompleteTimingMarks(g),
                                 metadata |-> metadata.value])
                        ELSE Err(InvalidMetadata(path, metadata.error))],
               !.ran[path] = Append(@, "metadata")]
    /\ UNCHANGED << pc, card_unchanged >>

\* The results of the join looked at side B first.
FindTimingMarkGridsSideBFirst ==
    /\ pc = "card_find"
    /\ \A path \in Paths : card.find[path].at = "returned"
    /\ LET side_a_result == card.find["side_a"].result
           side_b_result == card.find["side_b"].result
       IN  IF ~side_b_result.ok
           THEN /\ card' = [card EXCEPT !.result = Err(side_b_result.error)]
                /\ pc' = "card_returned"
           ELSE IF ~side_a_result.ok
           THEN /\ card' = [card EXCEPT !.result = Err(side_a_result.error)]
                /\ pc' = "card_returned"
           ELSE /\ card' = card
                /\ pc' = "card_resolve"
    /\ UNCHANGED card_unchanged

\* Lines 156-157.
FindTimingMarkGrids ==
    /\ pc = "card_find"
    /\ \A path \in Paths : card.find[path].at = "returned"
    /\ LET side_a_result == card.find["side_a"].result
           side_b_result == card.find["side_b"].result
       IN  IF ~side_a_result.ok
           THEN /\ card' = [card EXCEPT !.result = Err(side_a_result.error)]
                /\ pc' = "card_returned"
           ELSE IF ~side_b_result.ok
           THEN /\ card' = [card EXCEPT !.result = Err(side_b_result.error)]
                /\ pc' = "card_returned"
           ELSE /\ card' = card
                /\ pc' = "card_resolve"
    /\ UNCHANGED card_unchanged

\* Lines 159-175.
ResolveFrontAndBack ==
    /\ pc = "card_resolve"
    /\ LET sides == ResolveSides(
                        [image |-> card.loaded.value.side_a_image,
                         grid |-> card.find["side_a"].result.value],
                        [image |-> card.loaded.value.side_b_image,
                         grid |-> card.find["side_b"].result.value])
       IN  /\ card' = [card EXCEPT !.sides = sides,
                                   !.result = IF sides.ok THEN NotCalled ELSE Err(sides.error)]
           /\ pc' = IF sides.ok THEN "card_lookup" ELSE "card_returned"
    /\ UNCHANGED card_unchanged

\* Lines 177-198.
LookupGridLayout ==
    /\ pc = "card_lookup"
    /\ LET front_grid == card.sides.value.front.grid
           back_grid == card.sides.value.back.grid
           ballot_style_id == BallotStyleIdOfCard(front_grid.metadata.metadata.card_number)
           grid_layout == FindGridLayout(election, ballot_style_id)
       IN  /\ card' = [card EXCEPT
                  !.grid_layout = grid_layout,
                  !.ran = [path \in Paths |-> Append(card.ran[path], "layout")],
                  !.result = IF grid_layout.some
                             THEN NotCalled
                             ELSE Err(MissingGridLayout(front_grid.metadata, back_grid.metadata))]
           /\ pc' = IF grid_layout.some THEN "card_score" ELSE "card_returned"
    /\ UNCHANGED card_unchanged

\* A scoring task that reads what the other task has written.
ScoreOvalMarksSharing(side) ==
    /\ pc = "card_score"
    /\ card.scored[side] = NotCalled
    /\ LET page == IF side = "Front" THEN card.sides.value.front ELSE card.sides.value.back
           other == IF side = "Front" THEN "Back" ELSE "Front"
           scored == score_oval_marks_from_grid_layout(page.image,
                         page.grid.geometry.oval_size, page.grid, card.grid_layout.value, side)
       IN  card' = [card EXCEPT
               !.scored[side] =
                   Returned(IF card.scored[other] = NotCalled
                            THEN scored
                            ELSE card.scored[other].value \o scored),
               !.ran[page.image] = Append(@, "score")]
    /\ UNCHANGED << pc, card_unchanged >>

\* One task of the join of lines 200-221.
ScoreOvalMarks(side) ==
    /\ pc = "card_score"
    /\ card.scored[side] = NotCalled
    /\ LET page == IF side = "Front" THEN card.sides.value.front ELSE card.sides.value.back
       IN  card' = [card EXCEPT
               !.scored[side] =
                   Returned(score_oval_marks_from_grid_layout(page.image,
                       page.grid.geometry.oval_size, page.grid, card.grid_layout.value, side)),
               !.ran[page.image] = Append(@, "score")]
    /\ UNCHANGED << pc, card_unchanged >>

\* Lines 223-226.
ReturnInterpretedBallotCard ==
    /\ pc = "card_score"
    /\ \A side \in {"Front", "Back"} : card.scored[side] # NotCalled
    /\ card' = [card EXCEPT
           !.result = Ok([front |-> << card.sides.value.front.grid, card.scored["Front"].value >>,
                          back |-> << card.sides.value.back.grid, card.scored["Back"].value >>])]
    /\ pc' = "card_returned"
    /\ UNCHANGED card_unchanged

NextCard ==
    \/ \E path \in Paths : LoadBallotPageImage(path)
    \/ LoadBallotCardImages
    \/ \E path \in Paths : FindPageShapes(path)
    \/ \E path \in Paths : FindPagePartial(path)
    \/ \E path \in Paths : FindPageComplete(path)
    \/ \E path \in Paths : FindPageMetadata(path)
    \/ FindTimingMarkGrids
    \/ ResolveFrontAndBack
    \/ LookupGridLayout
    \/ \E side \in {"Front", "Back"} : ScoreOvalMarks(side)
    \/ ReturnInterpretedBallotCard

SpecCard == InitCard /\ [][NextCard]_vars

(***************************************************************************)
(* Properties of interpret_ballot_card.                                    *)
(***************************************************************************)
CardReturned == pc = "card_returned"

\* The pages were told apart, or found not to be a front and a back.
SidesResolved == card.sides # NotCalled

\* The metadata that find_timing_mark_grid decoded on a page.
PageMetadata(path) == card.find[path].result.value.metadata

NoOvalsScored == \A side \in {"Front", "Back"} : card.scored[side] = NotCalled

\* C13: interpret_ballot_card tells front from back by the decoded
\* metadata, not by the argument position: when side A decodes as a front
\* and side B as a back, the front is side A's image and grid; when side A
\* decodes as a back and side B as a front, the front is side B's; when
\* both decode to the same kind, it returns InvalidCardMetadata with the
\* metadata of both sides, and no oval is scored.
C13_FrontByMetadata ==
    SidesResolved =>
        LET side_a == [image |-> "side_a", grid |-> card.find["side_a"].result.value]
            side_b == [image |-> "side_b", grid |-> card.find["side_b"].result.value]
            a == PageMetadata("side_a")
            b == PageMetadata("side_b")
        IN  /\ (a.side = "Front" /\ b.side = "Back") =>
                   /\ card.sides.ok
                   /\ card.sides.value.front = side_a
                   /\ card.sides.value.back = side_b
            /\ (a.side = "Back" /\ b.side = "Front") =>
                   /\ card.sides.ok
                   /\ card.sides.value.front = side_b
                   /\ card.sides.value.back = side_a
            /\ a.side = b.side =>
                   /\ CardReturned
                   /\ card.result = Err(InvalidCardMetadata(a, b))
                   /\ NoOvalsScored
            /\ (card.result # NotCalled /\ card.result.ok) =>
                   /\ card.result.value.front[1] = card.sides.value.front.grid
                   /\ card.result.value.front[1].metadata.side = "Front"
                   /\ card.result.value.back[1].metadata.side = "Back"

\* A card handed over back first was interpreted: its front is side B.
C13_Witness ==
    /\ CardReturned
    /\ card.result.ok
    /\ scans["side_a"].printed.side = "Back"
    /\ PageMetadata("side_a").side = "Back"
    /\ card.sides.value.front.image = "side_b"
    /\ card.result.value.front[1].metadata.metadata.card_number = ScenarioFront.card_number

\* A page passed the image load and the geometry stage.
PageLoaded(path) ==
    /\ scans[path].opens
    /\ get_scanned_ballot_card_geometry(scans[path].dimensions).some
    /\ card.loads[path] # NotCalled
    /\ card.loads[path].ok

\* A page passed the timing-mark grid and the metadata stage.
PageGridFound(path) ==
    /\ scans[path].marks = "found"
    /\ ~scans[path].damaged
    /\ card.find[path].result # NotCalled
    /\ card.find[path].result.ok

RanInOrder(path) ==
    /\ Len(card.ran[path]) <= Len(Stages)
    /\ card.ran[path] = SubSeq(Stages, 1, Len(card.ran[path]))

\* The number of the stage at which a page halts: 1 for a file that is no
\* image, 2 for no-geometry, 4 for no-partial-frame, 5 for
\* no-complete-frame, 6 for metadata-invalid, 7 for no-grid-layout, and the
\* last stage for a page that does not halt.
HaltingStage(path) ==
    CASE ~scans[path].opens -> 1
      [] ~get_scanned_ballot_card_geometry(scans[path].dimensions).some -> 2
      [] scans[path].marks = "no_partial" -> 4
      [] scans[path].marks = "no_complete" -> 5
      [] card.find[path].result # NotCalled /\ ~card.find[path].result.ok -> 6
      [] card.grid_layout # NotCalled /\ ~card.grid_layout.some -> 7
      [] OTHER -> Len(Stages)

\* C15: per page the pipeline is linear: image open and geometry from the
\* dimensions, candidate detection, partial frame, complete frame, metadata
\* decoding, grid-layout lookup, oval scoring, in that order; a page that
\* reached a halting state (no-geometry, no-partial-frame,
\* no-complete-frame, metadata-invalid, no-grid-layout) has run no stage
\* after the one it halted in, and no stage twice.
C15_LinearPipeline ==
    \A path \in Paths :
        /\ RanInOrder(path)
        /\ Len(card.ran[path]) <= HaltingStage(path)
        /\ (CardReturned /\ card.result.ok) => card.ran[path] = Stages

\* Side A halted with no complete frame after five stages, while side B
\* went on to decode its metadata; no later stage ran for either.
C15_Witness ==
    /\ CardReturned
    /\ scans["side_a"].marks = "no_complete"
    /\ card.ran["side_a"] = SubSeq(Stages, 1, 5)
    /\ card.find["side_a"].result = Err(MissingTimingMarks(
           CandidateRects(scans["side_a"], card.loaded.value.geometry)))
    /\ card.ran["side_b"] = SubSeq(Stages, 1, 6)

(***************************************************************************)
(* Properties of process_image on a page without candidate rects.          *)
(***************************************************************************)
\* find_partial_timing_marks_from_candidate_rects was called with an empty
\* list of candidate rects.
FindPartialCalledWithNoRects == pc # "scanned" /\ contour_rects = << >>

\* C16 as claimed: when candidate detection yields an empty list of
\* candidate rects, the page fails with the MissingTimingMarks error as a
\* returned value that carries the candidate list; it does not abort and
\* no frame is produced.
C16_EmptyReturnsMissingTimingMarks ==
    FindPartialCalledWithNoRects =>
        /\ pc = "returned"
        /\ process_result = Err(MissingTimingMarks(contour_rects))
        /\ partial_timing_marks.status # "some"

\* C16 as the code behaves: with an empty list of candidate rects the four
\* best-fit lines are empty and the unwrap of the first rect of the top
\* line (timing_marks.rs, line 189) aborts the call: no frame is produced
\* and process_image returns nothing.
C16_EmptyAborts ==
    FindPartialCalledWithNoRects =>
        /\ pc = "panic"
        /\ partial_timing_marks = [status |-> "panic"]
        /\ process_result = NotCalled

\* The search for the partial frame was run on a page without candidate
\* rects.
C16_Witness ==
    /\ FindPartialCalledWithNoRects
    /\ source = BlankPage
    /\ partial_timing_marks # NotCalled

(***************************************************************************)
(* Properties of score_oval_marks_from_grid_layout.                        *)
(***************************************************************************)
\* The page of the card that was scored as `side`.
ScoredPage(side) ==
    IF side = "Front" THEN card.sides.value.front ELSE card.sides.value.back

\* The grid has a point at the position: its column and row are within
\* the grid size of the page's geometry.
GridPointDefined(grid, grid_position) ==
    /\ grid_position.column < grid.geometry.grid_size.width
    /\ grid_position.row < grid.geometry.grid_size.height

\* C17: score_oval_marks_from_grid_layout returns one entry for every grid
\* position of the layout whose side is the selected side and none for the
\* positions of the other side, in the order of grid_layout.grid_positions;
\* the entry of a position whose grid point is undefined is
\* (position, none), and every other entry holds what score_oval_mark
\* returns for the position's grid point and location.
C17_OneEntryPerPosition ==
    \A side \in {"Front", "Back"} :
        (card # NotCalled /\ card.scored[side] # NotCalled) =>
            LET scored_ovals == card.scored[side].value
                selected == SelectSeq(card.grid_layout.value.grid_positions,
                                      LAMBDA grid_position : grid_position.side = side)
            IN  /\ Len(scored_ovals) = Len(selected)
                /\ \A j \in 1 .. Len(selected) :
                       /\ scored_ovals[j][1] = selected[j]
                       /\ IF GridPointDefined(ScoredPage(side).grid, selected[j])
                          THEN scored_ovals[j][2] =
                                   score_oval_mark(ScoredPage(side).image,
                                       ScoredPage(side).grid.geometry.oval_size,
                                       TimingMarkGridGet(ScoredPage(side).grid,
                                           selected[j].column, selected[j].row).value,
                                       GridPositionLocation(selected[j]))
                          ELSE scored_ovals[j][2] = None

\* The front of a card was scored with a layout that holds positions of
\* both sides: four entries for the front, the second of them without a
\* score because its column is past the grid.
C17_Witness ==
    /\ pc = "card_score"
    /\ card.grid_layout.value = CardLayout
    /\ card.scored["Front"] # NotCalled
    /\ Len(card.scored["Front"].value) = 4
    /\ card.scored["Front"].value[2] = << CardLayout.grid_positions[3], None >>
    /\ card.scored["Front"].value[1][2].some

(***************************************************************************)
(* load_ballot_card_images on images of many dimensions: widths around the *)
(* ends of the two aspect-ratio windows at the canvas heights, the widths  *)
(* whose ratio is exactly 0.01 from a canvas ratio, scans at 150 and 300   *)
(* pixels per inch, a rotated page and pages of aspect ratio 0.5.          *)
(***************************************************************************)
Dimensions ==
    { Size(w, 2200) : w \in (1672 .. 1676) \cup (1694 .. 1701) \cup (1716 .. 1720) }
    \cup { Size(w, 2800) : w \in (1666 .. 1670) \cup (1694 .. 1701) \cup (1722 .. 1726) }
    \cup { Size(837, 1100), Size(859, 1100), Size(417, 700), Size(431, 700),
           Size(1275, 1650), Size(2550, 3300), Size(1275, 2100), Size(2200, 1696),
           Size(2200, 2200), Size(1000, 2000), Size(1100, 2200), Size(1099, 2200),
           Size(1, 2), Size(1, 1), Size(600, 2800) }

InitLoad ==
    /\ pc = "card_load"
    /\ \E side_a \in Dimensions,
          side_b \in {Size(1696, 2200), Size(1696, 2800), Size(1000, 2000)} :
           scans = [path \in Paths |->
                       IF path = "side_a"
                       THEN Scan(TRUE, side_a, "found", ScenarioFront, FALSE)
                       ELSE Scan(TRUE, side_b, "found", ScenarioBack, FALSE)]
    /\ election = << >>
    /\ card = CardNotStarted
    /\ calc = NotCalled
    /\ process_result = NotCalled
    /\ geometry = get_scanned_ballot_card_geometry_8pt5x11
    /\ missing = {}
    /\ partial_timing_marks = NotCalled
    /\ completion = CompletionNotStarted
    /\ complete_timing_marks = NotCalled
    /\ grid_column = NotCalled
    /\ bits_loop = BitsNotStarted
    /\ partial_bottom_rects = << >>
    /\ complete_bottom_rects = << >>
    /\ MetadataIdle

NextLoad ==
    \/ \E path \in Paths : LoadBallotPageImage(path)
    \/ LoadBallotCardImages

SpecLoad == InitLoad /\ [][NextLoad]_vars

\* The distance of the aspect ratio width / height from the aspect ratio
\* of a canvas, against a hundredth: -1 for less, 0 for equal, 1 for more.
AspectRatioDistance(dimensions, canvas_size) ==
    LET distance == 100 * AbsDiff(dimensions.width * canvas_size.height,
                                  canvas_size.width * dimensions.height)
        hundredth == dimensions.height * canvas_size.height
    IN  IF distance < hundredth THEN -1 ELSE IF distance = hundredth THEN 0 ELSE 1

Angles ==
    { k * Pow2(F32_ANGLE_UNIT_BITS - 3) : k \in (-MaxEighths) .. MaxEighths }
    \cup { d : d \in (-3) .. 3 }
    \cup { PI + d * Pow2(F32_ANGLE_UNIT_BITS - 22) : d \in (-3) .. 3 }
    \cup { -PI + d * Pow2(F32_ANGLE_UNIT_BITS - 22) : d \in (-3) .. 3 }
    \cup { 2 * PI + d * Pow2(F32_ANGLE_UNIT_BITS - 21) : d \in (-3) .. 3 }

RectOrigins == {-3, 0, 7}

Rects ==
    { RectAt(left, top, width, height) :
          left \in RectOrigins, top \in RectOrigins,
          width \in 1 .. MaxRectSize, height \in 1 .. MaxRectSize }

InitGeometry ==
    /\ pc = "calc"
    /\ calc \in { [function |-> "normalize_angle", angle |-> angle] : angle \in Angles }
                 \cup { [function |-> "center_of_rect", rect |-> rect] : rect \in Rects }
    /\ process_result = NotCalled
    /\ bits_loop = BitsNotStarted
    /\ partial_bottom_rects = << >>
    /\ complete_bottom_rects = << >>
    /\ MetadataIdle
    /\ geometry = get_scanned_ballot_card_geometry_8pt5x11
    /\ missing = {}
    /\ partial_timing_marks = NotCalled
    /\ completion = CompletionNotStarted
    /\ complete_timing_marks = NotCalled
    /\ grid_column = NotCalled
    /\ CardIdle

calc_unchanged ==
    << source, flips, partial_bottom_rects, complete_bottom_rects, bits_loop,
       front_metadata_result, back_metadata_result, metadata_result, completion_vars,
       grid_vars, card_vars, page_vars >>

\* normalize_angle(angle) and normalize_angle(angle + PI), lines 171-176.
NormalizeAngle ==
    /\ pc = "calc"
    /\ calc.function = "normalize_angle"
    /\ calc' = [ function |-> "normalize_angle",
                 angle |-> calc.angle,
                 normalized |-> normalize_angle(calc.angle),
                 equivalent |-> normalize_angle(F32Round(calc.angle + PI)) ]
    /\ pc' = "calculated"
    /\ UNCHANGED calc_unchanged

\* center_of_rect(&rect), lines 204-205.
CenterOfRect ==
    /\ pc = "calc"
    /\ calc.function = "center_of_rect"
    /\ calc' = [ function |-> "center_of_rect",
                 rect |-> calc.rect,
                 center |-> center_of_rect(calc.rect) ]
    /\ pc' = "calculated"
    /\ UNCHANGED calc_unchanged

NextGeometry ==
    \/ NormalizeAngle
    \/ CenterOfRect

SpecGeometry == InitGeometry /\ [][NextGeometry]_vars

AngleNormalized == pc = "calculated" /\ calc.function = "normalize_angle"

CenterCalculated == pc = "calculated" /\ calc.function = "center_of_rect"

InHalfTurn(angle) == 0 <= angle /\ angle < PI

\* C19 as claimed: for every finite angle a, normalize_angle(a) equals
\* normalize_angle(a + PI), and lies in [0, PI).
C19_EquivalentEqual ==
    AngleNormalized =>
        /\ calc.normalized = calc.equivalent
        /\ InHalfTurn(calc.normalized)

\* Two angles of [0, PI) are within 2^-20 of each other, or within 2^-20
\* of the opposite ends of [0, PI).
NearlyEqualModuloPi(a, b) ==
    LET tolerance == Pow2(F32_ANGLE_UNIT_BITS - 20)
    IN  AbsDiff(a, b) <= tolerance \/ AbsDiff(a, b) >= PI - tolerance

\* C19 as the code behaves: for every finite angle a (here of magnitude
\* below 16), normalize_angle(a) and normalize_angle(a + PI) lie in
\* [0, PI) and agree modulo PI up to the rounding of the f32 additions
\* and subtractions: they are within 2^-20 of each other, or one is
\* within 2^-20 of 0 and the other within 2^-20 of PI.
C19_EquivalentNearlyEqual ==
    AngleNormalized =>
        /\ InHalfTurn(calc.normalized)
        /\ InHalfTurn(calc.equivalent)
        /\ NearlyEqualModuloPi(calc.normalized, calc.equivalent)

\* The angle 2.0 * PI normalizes to 0, and 2.0 * PI + PI to the f32 just
\* below PI.
C19_Witness ==
    /\ AngleNormalized
    /\ calc.angle = 2 * PI
    /\ calc.normalized = 0
    /\ calc.equivalent >= PI - Pow2(F32_ANGLE_UNIT_BITS - 20)
    /\ calc.equivalent < PI

\* C20: for every rect at least a pixel wide and high, center_of_rect is
\* the midpoint of the inclusive edges, ((left + right) / 2,
\* (top + bottom) / 2) with right = left + width - 1 and bottom = top +
\* height - 1, so that left <= x <= right and top <= y <= bottom; the
\* center of the rect of 10 by 10 pixels at the origin is (4.5, 4.5).
C20_CenterIsMidpoint ==
    CenterCalculated =>
        LET rect == calc.rect
            right == rect.left + rect.width - 1
            bottom == rect.top + rect.height - 1
        IN  /\ 2 * calc.center.x = Px(rect.left + right)
            /\ 2 * calc.center.y = Px(rect.top + bottom)
            /\ Px(rect.left) <= calc.center.x
            /\ calc.center.x <= Px(right)
            /\ Px(rect.top) <= calc.center.y
            /\ calc.center.y <= Px(bottom)
            /\ rect = RectAt(0, 0, 10, 10) =>
                   calc.center = Point(Px(9) \div 2, Px(9) \div 2)

\* The center of the rect of 10 by 10 pixels at the origin was computed.
C20_Witness ==
    /\ CenterCalculated
    /\ calc.rect = RectAt(0, 0, 10, 10)
    /\ calc.center = Point(Px(9) \div 2, Px(9) \div 2)

(***************************************************************************)
(* The joins of interpret_ballot_card (interpret.rs, lines 151-157 and     *)
(* 200-221): what a task returns against what it is handed.                *)
(***************************************************************************)
\* What find_timing_mark_grid returns for a page of the given geometry: a
\* function of the page alone.
FindTimingMarkGridOf(path, g) ==
    LET scan == scans[path]
        metadata == decode_metadata_from_timing_marks(
                        ScannedBottomRow(scan, g), BottomRow(g.grid_size.height))
    IN  IF scan.marks \in {"no_partial", "no_complete"}
        THEN Err(MissingTimingMarks(CandidateRects(scan, g)))
        ELSE IF metadata.ok
        THEN Ok([geometry |-> g,
                 complete_timing_marks |-> PrintedCompleteTimingMarks(g),
                 metadata |-> metadata.value])
        ELSE Err(InvalidMetadata(path, metadata.error))

\* What the scoring of a side returns for the pages told apart as sides.
ScoreOf(sides, grid_layout, side) ==
    LET page == IF side = "Front" THEN sides.front ELSE sides.back
    IN  score_oval_marks_from_grid_layout(page.image, page.grid.geometry.oval_size,
                                          page.grid, grid_layout, side)

\* interpret_ballot_card with every join run as side A (front), then side B
\* (back).
InterpretedInTurn ==
    LET loaded == LoadJoin("side_a", "side_b",
                           load_ballot_page_image("side_a", scans["side_a"]),
                           load_ballot_page_image("side_b", scans["side_b"]))
    IN  IF ~loaded.ok THEN Err(loaded.error) ELSE
        LET g == loaded.value.geometry
            side_a_result == FindTimingMarkGridOf("side_a", g)
            side_b_result == FindTimingMarkGridOf("side_b", g)
        IN  IF ~side_a_result.ok THEN Err(side_a_result.error) ELSE
            IF ~side_b_result.ok THEN Err(side_b_result.error) ELSE
            LET sides == ResolveSides(
                             [image |-> loaded.value.side_a_image, grid |-> side_a_result.value],
                             [image |-> loaded.value.side_b_image, grid |-> side_b_result.value])
            IN  IF ~sides.ok THEN Err(sides.error) ELSE
                LET front_grid == sides.value.front.grid
                    back_grid == sides.value.back.grid
                    grid_layout == FindGridLayout(election,
                                       BallotStyleIdOfCard(front_grid.metadata.metadata.card_number))
                IN  IF ~grid_layout.some
                    THEN Err(MissingGridLayout(front_grid.metadata, back_grid.metadata))
                    ELSE Ok([front |-> << front_grid,
                                          ScoreOf(sides.value, grid_layout.value, "Front") >>,
                             back |-> << back_grid,
                                         ScoreOf(sides.value, grid_layout.value, "Back") >>])

HORIZONTAL == 0

VERTICAL == PI \div 2

\* The orientation of the line from p1 to p2 is within five degrees of the
\* target: the tangent of five degrees is 0.0875.
OrientationWithinTolerance(p1, p2, target) ==
    LET dx == AbsDiff(p1.x, p2.x)
        dy == AbsDiff(p1.y, p2.y)
    IN  /\ p1 # p2
        /\ IF target = HORIZONTAL THEN 10000 * dy <= 875 * dx ELSE 10000 * dx <= 875 * dy

\* The candidates that a segment meets, in the order of the list.
RECURSIVE RectsMeeting(_, _, _)
RectsMeeting(rects, line, k) ==
    IF k > Len(rects)
    THEN << >>
    ELSE (IF rect_intersects_line(rects[k], line) THEN << rects[k] >> ELSE << >>)
             \o RectsMeeting(rects, line, k + 1)

\* The set collected for the ordered pair (i, j): empty when the pair is not
\* a pair of two candidates within the tolerance.
PairLine(rects, target, i, j) ==
    LET line == Segment(center_of_rect(rects[i]), center_of_rect(rects[j]))
    IN  IF i # j /\ OrientationWithinTolerance(line.start, line.end, target)
        THEN RectsMeeting(rects, line, 1)
        ELSE << >>

\* The inner loop of the outer index i: the longest set of its pairs, the
\* first found among the longest.
RECURSIVE InnerLoop(_, _, _, _, _)
InnerLoop(rects, target, i, j, best) ==
    IF j > Len(rects)
    THEN best
    ELSE LET line == PairLine(rects, target, i, j)
         IN  InnerLoop(rects, target, i, j + 1,
                       IF Len(line) > Len(best) THEN line ELSE best)

\* The reduction: the longer set wins, and of two sets of one length the
\* one of the smaller outer index.
BestLineReduce(a, b) ==
    IF Len(b.line) > Len(a.line) \/ (Len(b.line) = Len(a.line) /\ b.index < a.index)
    THEN b
    ELSE a

\* Candidate pools: two rows of three marks, in orders that put either row
\* first; a row of three and a row of two; a lone mark; no mark; two
\* columns of two marks; a column of three marks and a stray mark.
BestLinePools ==
    { << LatticeRect(0, 0), LatticeRect(0, 2), LatticeRect(1, 0), LatticeRect(1, 2),
         LatticeRect(2, 0), LatticeRect(2, 2) >>,
      << LatticeRect(2, 2), LatticeRect(2, 0), LatticeRect(1, 2), LatticeRect(0, 0),
         LatticeRect(1, 0), LatticeRect(0, 2) >>,
      << LatticeRect(1, 2), LatticeRect(0, 0), LatticeRect(1, 0), LatticeRect(0, 2),
         LatticeRect(2, 0) >>,
      << LatticeRect(3, 3) >>,
      << >>,
      << LatticeRect(0, 0), LatticeRect(5, 0), LatticeRect(0, 1), LatticeRect(5, 2) >>,
      << LatticeRect(4, 1), LatticeRect(0, 3), LatticeRect(0, 0), LatticeRect(0, 6) >> }

\* The outer indexes of the pools.
PoolIndexes == UNION { DOMAIN rects : rects \in BestLinePools }

\* Everything but `calc` and `pc` as it is while no page is being read.
CalcOnly ==
    /\ process_result = NotCalled
    /\ bits_loop = BitsNotStarted
    /\ partial_bottom_rects = << >>
    /\ complete_bottom_rects = << >>
    /\ MetadataIdle
    /\ geometry = get_scanned_ballot_card_geometry_8pt5x11
    /\ missing = {}
    /\ partial_timing_marks = NotCalled
    /\ completion = CompletionNotStarted
    /\ complete_timing_marks = NotCalled
    /\ grid_column = NotCalled
    /\ CardIdle

InitBestLine ==
    /\ pc = "calc"
    /\ \E rects \in BestLinePools, target \in {HORIZONTAL, VERTICAL} :
           calc = [ function |-> "find_best_line_through_items",
                    rects |-> rects,
                    target |-> target,
                    pending |-> 1 .. Len(rects),
                    partial |-> {} ]
    /\ CalcOnly

\* One task of the outer loop.
BestLineTask(i) ==
    /\ pc = "calc"
    /\ i \in calc.pending
    /\ calc' = [calc EXCEPT
           !.pending = @ \ {i},
           !.partial = @ \cup { [index |-> i,
                                 line |-> InnerLoop(calc.rects, calc.target, i, 1, << >>)] }]
    /\ UNCHANGED << pc, calc_unchanged >>

\* One step of the reduction, on any two results at hand.
BestLineReduceStep ==
    /\ pc = "calc"
    /\ \E a \in calc.partial, b \in calc.partial :
           /\ a # b
           /\ calc' = [calc EXCEPT !.partial = (@ \ {a, b}) \cup {BestLineReduce(a, b)}]
    /\ UNCHANGED << pc, calc_unchanged >>

\* The reduction done: the line is returned, empty for no candidates.
BestLineReturn ==
    /\ pc = "calc"
    /\ calc.pending = {}
    /\ Cardinality(calc.partial) <= 1
    /\ calc' = [ function |-> calc.function,
                 rects |-> calc.rects,
                 target |-> calc.target,
                 line |-> IF calc.partial = {}
                          THEN << >>
                          ELSE (CHOOSE best \in calc.partial : TRUE).line ]
    /\ pc' = "calculated"
    /\ UNCHANGED calc_unchanged

NextBestLine ==
    \/ \E i \in PoolIndexes : BestLineTask(i)
    \/ BestLineReduceStep
    \/ BestLineReturn

SpecBestLine == InitBestLine /\ [][NextBestLine]_vars

BestLineReturned == pc = "calculated" /\ calc.function = "find_best_line_through_items"

\* The ordered pairs of a pool, and the order in which a loop that runs in
\* turn finds them.
OrderedPairs(rects) == (1 .. Len(rects)) \X (1 .. Len(rects))

FoundBefore(p, q) == p[1] < q[1] \/ (p[1] = q[1] /\ p[2] <= q[2])

\* C22: over a fixed pool, best-fit line assembly returns a set of greatest
\* size among the sets collected for the ordered pairs within the
\* tolerance, and of several sets of that size the first found, the one of
\* the smallest outer index, whatever the order in which the tasks of the
\* outer loop run and their results are reduced.  Of two rows of three
\* marks it returns the row of the first candidate.
C22_LongestFirstFound ==
    BestLineReturned =>
        LET rects == calc.rects
            line(p) == PairLine(rects, calc.target, p[1], p[2])
            longest == { p \in OrderedPairs(rects) :
                             /\ Len(line(p)) > 0
                             /\ \A q \in OrderedPairs(rects) : Len(line(q)) <= Len(line(p)) }
        IN  /\ longest = {} => calc.line = << >>
            /\ longest # {} =>
                   \E p \in longest :
                       /\ \A q \in longest : FoundBefore(p, q)
                       /\ calc.line = line(p)
            /\ (Len(rects) = 6 /\ rects[1] = LatticeRect(0, 0) /\ calc.target = HORIZONTAL) =>
                   calc.line = << LatticeRect(0, 0), LatticeRect(1, 0), LatticeRect(2, 0) >>

\* Of two rows of three marks, the second row's first mark being the first
\* candidate, the second row was returned.
C22_Witness ==
    /\ BestLineReturned
    /\ calc.target = HORIZONTAL
    /\ Len(calc.rects) = 6
    /\ calc.rects[1] = LatticeRect(2, 2)
    /\ calc.line = << LatticeRect(2, 2), LatticeRect(1, 2), LatticeRect(0, 2) >>

(***************************************************************************)
(* Properties of infer_missing_timing_marks_on_segment (timing_marks.rs,   *)
(* lines 469-521).                                                         *)
(***************************************************************************)
\* A side is being inferred.
InferringSide == pc = "infer" /\ Len(completion.lines) < Len(Sides)

InferredSide == Sides[Len(completion.lines) + 1]

\* One iteration of the loop was made on this step.
InferIterated ==
    /\ InferringSide
    /\ Len(completion'.lines) = Len(completion.lines)
    /\ completion' # completion

\* The side's line was returned on this step.
InferReturned ==
    /\ InferringSide
    /\ Len(completion'.lines) = Len(completion.lines) + 1

\* The rect is a detected rect of the side, and none is nearer the target.
NearestDetected(rect, timing_marks, target) ==
    /\ \E j \in 1 .. Len(timing_marks) : timing_marks[j] = rect
    /\ \A j \in 1 .. Len(timing_marks) :
           SquaredDistance(center_of_rect(rect), target)
               <= SquaredDistance(center_of_rect(timing_marks[j]), target)

\* The rect has the nominal timing-mark size, in whole pixels, and its
\* middle is within a pixel of the target.
NominalAbout(rect, target, g) ==
    /\ rect.width = RoundToPixel(g.timing_mark_size.width)
    /\ rect.height = RoundToPixel(g.timing_mark_size.height)
    /\ AbsDiff(2 * Px(rect.left) + Px(rect.width), 2 * target.x) <= Px(2)
    /\ AbsDiff(2 * Px(rect.top) + Px(rect.height), 2 * target.y) <= Px(2)

\* C23: on a non-empty side infer_missing_timing_marks_on_segment starts
\* at the start corner of the segment; at each step it takes the detected
\* rect nearest the target if that rect's center is within
\* expected_distance / 2 of it, and the next target is that center plus a
\* step of expected_distance along the segment; otherwise it emits a rect
\* of the nominal timing-mark size centered on the target, and the next
\* target is the target plus a step.  It stops after exactly
\* expected_count marks, and for an empty side it returns the empty list.
C23_InferenceWalk ==
    [][ /\ InferringSide =>
            LET loop == completion.loop
                p == partial_timing_marks.value
                segment == SideSegment(p, InferredSide)
                empty == InferMissingEnter(<< >>, segment, loop.expected_distance,
                                           SideExpectedCount(geometry, InferredSide))
            IN  /\ loop.inferred_timing_marks = << >> =>
                       loop.current_timing_mark_center = segment.start
                /\ loop.next_point_vector = WithLengthVector(segment, loop.expected_distance)
                /\ AbsDiff(SquaredDistance(Point(0, 0), loop.next_point_vector),
                           loop.expected_distance * loop.expected_distance)
                       <= 2 * loop.expected_distance
                /\ ~InferMissingContinues(empty)
                /\ empty.inferred_timing_marks = << >>
        /\ InferIterated =>
            LET loop == completion.loop
                target == loop.current_timing_mark_center
                step == loop.next_point_vector
                next == completion'.loop.current_timing_mark_center
                line == completion'.loop.inferred_timing_marks
                rect == line[Len(line)]
                within == \E j \in 1 .. Len(loop.timing_marks) :
                              4 * SquaredDistance(center_of_rect(loop.timing_marks[j]), target)
                                  <= loop.expected_distance * loop.expected_distance
            IN  /\ Len(loop.inferred_timing_marks) < loop.expected_count
                /\ line = Append(loop.inferred_timing_marks, rect)
                /\ within =>
                       /\ NearestDetected(rect, loop.timing_marks, target)
                       /\ next = Point(center_of_rect(rect).x + step.x,
                                       center_of_rect(rect).y + step.y)
                /\ ~within =>
                       /\ NominalAbout(rect, target, geometry)
                       /\ next = Point(target.x + step.x, target.y + step.y)
        /\ InferReturned =>
            LET line == completion'.lines[Len(completion'.lines)]
                timing_marks == SideRects(partial_timing_marks.value, InferredSide)
            IN  /\ timing_marks # << >> =>
                       Len(line) = SideExpectedCount(geometry, InferredSide)
                /\ timing_marks = << >> => line = << >>
      ]_vars

\* On a side that lost a mark, a rect was synthesized after a detected rect
\* was taken.
C23_Witness ==
    /\ InferringSide
    /\ missing # {}
    /\ LET loop == completion.loop
           line == loop.inferred_timing_marks
       IN  /\ Len(line) >= 2
           /\ \E j \in 1 .. Len(loop.timing_marks) : line[1] = loop.timing_marks[j]
           /\ \A j \in 1 .. Len(loop.timing_marks) : line[Len(line)] # loop.timing_marks[j]
           /\ NominalAbout(line[Len(line)],
                  Point(loop.current_timing_mark_center.x - loop.next_point_vector.x,
                        loop.current_timing_mark_center.y - loop.next_point_vector.y),
                  geometry)

(***************************************************************************)
(* image_utils.rs and score_oval_mark (timing_marks.rs, lines 648-720) on  *)
(* the pixels.  A page is held by its pixels that are not white; an image  *)
(* cut out of it, and the oval template, hold every pixel.                 *)
(***************************************************************************)
WHITE == 255

BLACK == 0

GRAY == (WHITE + 1) \div 2

Positions(width, height) == (0 .. width - 1) \X (0 .. height - 1)

GrayImage(width, height, pixels) == [width |-> width, height |-> height, pixels |-> pixels]

\* A scanned page: the pixels of `dark` are black, those of `gray` gray,
\* the others white.
PageImage(width, height, dark, gray) ==
    [width |-> width, height |-> height, dark |-> dark, gray |-> gray]

\* GenericImageView::get_pixel on a page.
get_pixel(img, x, y) ==
    IF << x, y >> \in img.dark THEN BLACK
    ELSE IF << x, y >> \in img.gray THEN GRAY
    ELSE WHITE

\* A view that any corner and size are good for.
ViewUnchecked(img, x, y, width, height) == TRUE

\* img.view(x, y, width, height): whether the view is within the image (it
\* panics if not, lines 678 and 696-703).
ViewInBounds(img, x, y, width, height) ==
    x + width <= img.width /\ y + height <= img.height

\* img.view(x, y, width, height).to_image().
ViewToImage(img, x, y, width, height) ==
    GrayImage(width, height,
        [p \in Positions(width, height) |-> get_pixel(img, x + p[1], y + p[2])])

\* imageproc::contrast::threshold: white above the threshold, black at or
\* below it.
threshold(image, level) ==
    GrayImage(image.width, image.height,
        [p \in Positions(image.width, image.height) |->
            IF image.pixels[p] > level THEN WHITE ELSE BLACK])

\* A diff that is white only where the two pixels are equal.
DiffBothWays(base, compare) ==
    GrayImage(base.width, base.height,
        [p \in Positions(base.width, base.height) |->
            WHITE - AbsDiff(base.pixels[p], compare.pixels[p])])

\* diff (image_utils.rs, lines 48-68).
diff(base, compare) ==
    GrayImage(base.width, base.height,
        [p \in Positions(base.width, base.height) |->
            LET base_pixel == base.pixels[p]
                compare_pixel == compare.pixels[p]
                d == IF base_pixel < compare_pixel THEN 0 ELSE base_pixel - compare_pixel
            IN  WHITE - d])

\* count_pixels (image_utils.rs).
count_pixels(img, luma) ==
    Cardinality({p \in Positions(img.width, img.height) : img.pixels[p] = luma})

\* ratio (image_utils.rs): the f32 quotient, held as its two terms.
ratio(img, luma) ==
    [count |-> count_pixels(img, luma), total |-> img.width * img.height]

\* OvalMarkScore's partial_cmp on two ratios of positive totals.
ScoreGreater(a, b) == a.count * b.total > b.count * a.total

\* The locals best_match_score, best_match_bounds of score_oval_mark.
NoMatch == [status |-> "searching", some |-> FALSE]

BestMatch(score, bounds) ==
    [status |-> "searching", some |-> TRUE, score |-> score, bounds |-> bounds]

Panicked == [status |-> "panic", some |-> FALSE]

\* An iteration that keeps the last of the offsets of the greatest score.
ScoreOffsetLastWins(img, oval_template, left, top, level, offset_x, offset_y, best) ==
    LET x == left + offset_x
        y == top + offset_y
        width == oval_template.width
        height == oval_template.height
        match_diff == diff(threshold(ViewToImage(img, x, y, width, height), level),
                           oval_template)
        match_score == ratio(match_diff, WHITE)
    IN  IF x < 0 \/ y < 0 THEN best
        ELSE IF ~ViewInBounds(img, x, y, width, height) THEN Panicked
        ELSE IF ~best.some \/ ~ScoreGreater(best.score, match_score)
        THEN BestMatch(match_score, RectAt(x, y, width, height))
        ELSE best

\* Lines 667-689: the body of the loops for one offset.
ScoreOffset(img, oval_template, left, top, level, offset_x, offset_y, best) ==
    LET x == left + offset_x
        y == top + offset_y
        width == oval_template.width
        height == oval_template.height
        cropped == ViewToImage(img, x, y, width, height)
        cropped_and_thresholded == threshold(cropped, level)
        match_diff == diff(cropped_and_thresholded, oval_template)
        match_score == ratio(match_diff, WHITE)
    IN  IF x < 0 \/ y < 0 THEN best
        ELSE IF ~ViewInBounds(img, x, y, width, height) THEN Panicked
        ELSE IF ~best.some \/ ScoreGreater(match_score, best.score)
        THEN BestMatch(match_score, RectAt(x, y, width, height))
        ELSE best

\* Lines 672-689: the inner loop from the j-th offset_y on, offsets from
\* -maximum_search_distance up to but not maximum_search_distance.
RECURSIVE SearchOffsetsY(_, _, _, _, _, _, _, _, _)
SearchOffsetsY(img, oval_template, left, top, level, maximum_search_distance, offset_x, j, best) ==
    LET next == ScoreOffset(img, oval_template, left, top, level, offset_x,
                            j - maximum_search_distance, best)
    IN  IF j = 2 * maximum_search_distance THEN best
        ELSE IF next.status = "panic" THEN next
        ELSE SearchOffsetsY(img, oval_template, left, top, level,
                            maximum_search_distance, offset_x, j + 1, next)

\* Lines 666-690: the outer loop from the i-th offset_x on.
RECURSIVE SearchOffsets(_, _, _, _, _, _, _, _)
SearchOffsets(img, oval_template, left, top, level, maximum_search_distance, i, best) ==
    LET next == SearchOffsetsY(img, oval_template, left, top, level,
                               maximum_search_distance, i - maximum_search_distance,
                               0, best)
    IN  IF i = 2 * maximum_search_distance THEN best
        ELSE IF next.status = "panic" THEN next
        ELSE SearchOffsets(img, oval_template, left, top, level,
                           maximum_search_distance, i + 1, next)

\* f32 as u32: negative values become 0.
AsU32(n) == IF n < 0 THEN 0 ELSE n

\* score_oval_mark (lines 648-720).  center - size / 2 is a subtraction of
\* u32: below zero it panics where overflow is checked, and elsewhere it
\* wraps, and `as i32` gives the negative difference.
ScoreOvalMarkSearch(img, oval_template, expected_oval_center, location, maximum_search_distance, level, overflow_checks) ==
    LET center_x == AsU32(RoundToPixel(expected_oval_center.x))
        center_y == AsU32(RoundToPixel(expected_oval_center.y))
        left == center_x - oval_template.width \div 2
        top == center_y - oval_template.height \div 2
        width == oval_template.width
        height == oval_template.height
        original_bounds == RectAt(left, top, width, height)
        best == SearchOffsets(img, oval_template, left, top, level,
                              maximum_search_distance, 0, NoMatch)
        source_image == ViewToImage(img, best.bounds.left, best.bounds.top, width, height)
        binarized_source_image == threshold(source_image, level)
        diff_image == diff(oval_template, binarized_source_image)
        fill_score == ratio(diff_image, BLACK)
    IN  IF overflow_checks /\ (left < 0 \/ top < 0) THEN [status |-> "panic"]
        ELSE IF best.status = "panic" THEN [status |-> "panic"]
        ELSE IF ~best.some THEN [status |-> "none"]
        ELSE [ status |-> "some",
               location |-> location,
               match_score |-> best.score,
               fill_score |-> fill_score,
               original_bounds |-> original_bounds,
               matched_bounds |-> best.bounds ]

\* C27: no pattern of 32 bits is accepted by both decoders: a pattern that
\* the front decoder accepts has bit 31 set and one that the back decoder
\* accepts has it clear, so at most one kind of page is accepted for a
\* bottom row and decode_metadata_from_timing_marks never returns
\* AmbiguousMetadata.
C27_NeverAmbiguous ==
    /\ BackDecoded =>
           /\ ~(front_metadata_result.ok /\ back_metadata_result.ok)
           /\ front_metadata_result.ok => bits_loop.bits[31]
           /\ back_metadata_result.ok => ~bits_loop.bits[31]
    /\ Matched =>
           /\ metadata_result.ok =>
                  (metadata_result.value.side = "Front") = front_metadata_result.ok
           /\ ~metadata_result.ok => metadata_result.error.type # "AmbiguousMetadata"

\* The bottom row of a back was accepted as a back, its bits having the
\* checksum of a front: the front decoder rejected them for bit 31 alone.
C27_Witness ==
    /\ Matched
    /\ back_metadata_result.ok
    /\ metadata_result.ok
    /\ metadata_result.value.side = "Back"
    /\ ~front_metadata_result.ok
    /\ front_metadata_result.error.type = "ValueOutOfRange"


\* The results of a join: side A's error if side A failed, else side B's
\* if side B failed.
JoinError(side_a_result, side_b_result) ==
    IF ~side_a_result.ok THEN Err(side_a_result.error) ELSE Err(side_b_result.error)

\* C29: the results of a join are looked at only when both of its tasks
\* have returned, for loading the images and for finding the grids alike;
\* if side A failed the error returned is side A's, whether or not side B
\* failed too, and side B's error is returned only if side A succeeded.
C29_JoinThenSideAFirst ==
    /\ card.loaded # NotCalled => \A path \in Paths : card.loads[path] # NotCalled
    /\ pc \in {"card_resolve", "card_lookup", "card_score"} =>
           \A path \in Paths : card.find[path].at = "returned"
    /\ (pc = "card_returned" /\ \E path \in Paths : ~card.loads[path].ok) =>
           card.result = JoinError(card.loads["side_a"], card.loads["side_b"])
    /\ (pc = "card_returned" /\ card.loaded.ok /\ card.sides = NotCalled) =>
           /\ \A path \in Paths : card.find[path].at = "returned"
           /\ \E path \in Paths : ~card.find[path].result.ok
           /\ card.result = JoinError(card.find["side_a"].result, card.find["side_b"].result)
           /\ (~card.find["side_b"].result.ok
                   /\ card.result = Err(card.find["side_b"].result.error)) =>
                  (card.find["side_a"].result.ok
                   \/ card.find["side_a"].result.error = card.find["side_b"].result.error)

\* Both pages of a card failed in finding their grid, each with an error
\* of its own, and side A's was returned.
C29_Witness ==
    /\ pc = "card_returned"
    /\ card.loaded.ok
    /\ \A path \in Paths : card.find[path].at = "returned" /\ ~card.find[path].result.ok
    /\ card.find["side_a"].result.error # card.find["side_b"].result.error
    /\ card.result = Err(card.find["side_a"].result.error)


\* The rects of a list are pairwise distinct.
PairwiseDistinct(rects) ==
    \A j, k \in DOMAIN rects : rects[j] = rects[k] => j = k

\* Every rect of `partial` is a rect of `complete`, and each rect of
\* `partial` comes after the one before it in `complete`, whose rects are
\* pairwise distinct.
InTheOrderOf(partial, complete) ==
    /\ \A k \in DOMAIN partial : \E j \in DOMAIN complete : complete[j] = partial[k]
    /\ \A k \in 1 .. (Len(partial) - 1) :
           \E m \in DOMAIN complete :
               /\ complete[m] = partial[k + 1]
               /\ \E j \in 1 .. (m - 1) : complete[j] = partial[k]

\* The bottom rows of C30: 34 distinct completed rects, the partial rects
\* distinct and among them in their order, the last of each the same.
AlignedBottomRows ==
    /\ Len(complete_bottom_rects) = ExpectedCompleteCount
    /\ PairwiseDistinct(complete_bottom_rects)
    /\ PairwiseDistinct(partial_bottom_rects)
    /\ InTheOrderOf(partial_bottom_rects, complete_bottom_rects)
    /\ partial_bottom_rects # << >>
    /\ partial_bottom_rects[Len(partial_bottom_rects)]
           = complete_bottom_rects[ExpectedCompleteCount]

\* C30: on bottom rows so aligned the walk returns bits, if the partial row
\* has at least two rects, and bit i of them, for i in 0 .. 31, is true
\* exactly when the completed rect at index 32 - i, counted from 0 at the
\* left, is one of the partial rects.
C30_BitIffMarkDetected ==
    (pc = "bits_done" /\ AlignedBottomRows) =>
        /\ bits_loop.status = "ok" <=> Len(partial_bottom_rects) >= MinimumPartialCount
        /\ bits_loop.status = "ok" =>
               \A i \in BitIndexes :
                   bits_loop.bits[i] <=>
                       \E k \in DOMAIN partial_bottom_rects :
                           partial_bottom_rects[k]
                               = complete_bottom_rects[(ExpectedCompleteCount - 2 - i) + 1]

\* Bits were read from a printed row on which the scan missed a mark other
\* than the last: some bits are set and some are not, and the leftmost
\* completed mark, which decides no bit, was detected.
C30_Witness ==
    /\ pc = "bits_done"
    /\ AlignedBottomRows
    /\ bits_loop.status = "ok"
    /\ flips > 0
    /\ \E i \in BitIndexes : bits_loop.bits[i]
    /\ \E i \in BitIndexes : ~bits_loop.bits[i]
    /\ partial_bottom_rects[1] = complete_bottom_rects[1]


(***************************************************************************)
(* Scoring an oval on the pixels: score_oval_mark applied to an oval       *)
(* template, a page and the center at which the oval is expected.          *)
(***************************************************************************)
\* An oval template: a black outline about a white inside.
OvalTemplate(width, height) ==
    GrayImage(width, height,
        [p \in Positions(width, height) |->
            IF p[1] \in {0, width - 1} \/ p[2] \in {0, height - 1}
            THEN BLACK ELSE WHITE])

SmallTemplate == OvalTemplate(3, 3)

ScannedTemplate == OvalTemplate(40, 26)

\* The levels that otsu_level finds: one below gray and one above it.
Levels == {100, 200}

\* What is printed or drawn at an oval: its outline alone, the outline in
\* gray, the oval filled in, or a mark inside an outline that is not there.
StampKinds == {"outline", "gray", "filled", "dot"}

\* The top-left pixels of the ovals on a small page: the first and the last
\* place of the search, the expected place, and two places between.
StampPlaces == { << 2, 2 >>, << 9, 9 >>, << 15, 15 >>, << 4, 12 >>, << 12, 4 >> }

Stamps == StampPlaces \X StampKinds

\* The pixels of a stamp that are not white.
StampPixels(stamp, template) ==
    { << stamp[1][1] + p[1], stamp[1][2] + p[2] >> :
        p \in { q \in Positions(template.width, template.height) :
                  \/ stamp[2] = "filled"
                  \/ stamp[2] = "dot" /\ template.pixels[q] = WHITE
                  \/ stamp[2] \in {"outline", "gray"} /\ template.pixels[q] = BLACK } }

\* A page of 24 by 24 pixels with the given stamps on it.
SmallPage(stamps) ==
    PageImage(24, 24,
        UNION { StampPixels(s, SmallTemplate) : s \in { t \in stamps : t[2] # "gray" } },
        UNION { StampPixels(s, SmallTemplate) : s \in { t \in stamps : t[2] = "gray" } })

\* Pages with at most two ovals, at different places.
SmallPages ==
    { SmallPage(stamps) :
        stamps \in { ss \in SUBSET Stamps :
                       /\ Cardinality(ss) <= 2
                       /\ \A s, t \in ss : s[1] = t[1] => s = t } }

\* The centers expected on a small page: the middle, the middle and a half
\* pixel, next to the top-left corner, the corner itself, and near the
\* right edge.
SmallCenters ==
    { Point(Px(10), Px(10)), Point(Px(10) + Scale \div 2, Px(10)),
      Point(Px(1), Px(1)), Point(0, 0), Point(Px(20), Px(10)) }

\* A scanned page of the canvas size with nothing on it.
WhitePage(g) == PageImage(g.canvas_size.width, g.canvas_size.height, {}, {})

\* The grid positions at the corners of the grid of a page.
CornerLocations(g) ==
    { GridPositionLocation(GridPosition("Front", column, row, "option")) :
        column \in {0, LastColumn}, row \in {0, LastRow(g)} }

PrintedGrid(g) == TimingMarkGrid(g, PrintedCompleteTimingMarks(g))

ScoreCall(img, oval_template, expected_oval_center, location, level, overflow_checks) ==
    [ function |-> "score_oval_mark",
      img |-> img,
      oval_template |-> oval_template,
      expected_oval_center |-> expected_oval_center,
      location |-> location,
      level |-> level,
      overflow_checks |-> overflow_checks ]

SmallLocation == GridPositionLocation(GridPosition("Front", 2, 2, "option"))

InitScore ==
    /\ pc = "calc"
    /\ \/ \E img \in SmallPages, level \in Levels :
              calc = ScoreCall(img, SmallTemplate, Point(Px(10), Px(10)), SmallLocation,
                               level, TRUE)
       \/ \E center \in SmallCenters, level \in Levels, overflow_checks \in BOOLEAN :
              calc = ScoreCall(SmallPage({ << << 9, 9 >>, "outline" >> }), SmallTemplate,
                               center, SmallLocation, level, overflow_checks)
       \/ \E location \in CornerLocations(get_scanned_ballot_card_geometry_8pt5x11) :
              LET g == get_scanned_ballot_card_geometry_8pt5x11
              IN  calc = ScoreCall(WhitePage(g), ScannedTemplate,
                           TimingMarkGridGet(PrintedGrid(g), location.column,
                                             location.row).value,
                           location, 100, TRUE)
    /\ CalcOnly

ScoreOvalMark ==
    /\ pc = "calc"
    /\ calc.function = "score_oval_mark"
    /\ calc' = [ call |-> calc,
                 function |-> calc.function,
                 scored |-> ScoreOvalMarkSearch(calc.img, calc.oval_template,
                                calc.expected_oval_center, calc.location,
                                DEFAULT_MAXIMUM_SEARCH_DISTANCE, calc.level,
                                calc.overflow_checks) ]
    /\ pc' = "calculated"
    /\ UNCHANGED calc_unchanged

NextScore == ScoreOvalMark

SpecScore == InitScore /\ [][NextScore]_vars

OvalScored == pc = "calculated" /\ calc.function = "score_oval_mark"

\* The top-left corner from which score_oval_mark searches: the expected
\* center less half the size of the template.
ExpectedOrigin(call) ==
    Point(AsU32(RoundToPixel(call.expected_oval_center.x)) - call.oval_template.width \div 2,
          AsU32(RoundToPixel(call.expected_oval_center.y)) - call.oval_template.height \div 2)

SearchRange == (-DEFAULT_MAXIMUM_SEARCH_DISTANCE) .. (DEFAULT_MAXIMUM_SEARCH_DISTANCE - 1)

\* The offsets at which a patch is evaluated: those of the range that do
\* not take the patch to the left of the page or above it.
EvaluatedOffsets(call) ==
    { o \in SearchRange \X SearchRange :
        ExpectedOrigin(call).x + o[1] >= 0 /\ ExpectedOrigin(call).y + o[2] >= 0 }

\* The match score of the patch at an offset.
MatchScoreAt(call, o) ==
    ratio(diff(threshold(ViewToImage(call.img, ExpectedOrigin(call).x + o[1],
                                     ExpectedOrigin(call).y + o[2],
                                     call.oval_template.width, call.oval_template.height),
                         call.level),
               call.oval_template),
          WHITE)

\* The order of the search: offset_x first, then offset_y.
OffsetBefore(a, b) == a[1] < b[1] \/ (a[1] = b[1] /\ a[2] < b[2])

\* The offset of the bounds that a call matched.
MatchedOffset ==
    << calc.scored.matched_bounds.left - ExpectedOrigin(calc.call).x,
       calc.scored.matched_bounds.top - ExpectedOrigin(calc.call).y >>

\* C24: an oval that score_oval_mark scores is matched at one of the offsets
\* of -7 .. 6 by -7 .. 6 from the expected top-left corner that it evaluates:
\* the score of the patch there is the match score, no evaluated offset has
\* a greater score, and every evaluated offset before it, offset_x first and
\* offset_y second, has a lesser one; the matched bounds and the original
\* bounds have the width and the height of the template, and the original
\* bounds are at the expected corner.
C24_BestMatchFirstFound ==
    (OvalScored /\ calc.scored.status = "some") =>
        LET call == calc.call
            scored == calc.scored
            best == MatchScoreAt(call, MatchedOffset)
        IN  /\ MatchedOffset \in EvaluatedOffsets(call)
            /\ scored.match_score = best
            /\ \A o \in EvaluatedOffsets(call) :
                   LET score == MatchScoreAt(call, o)
                   IN  /\ ~ScoreGreater(score, best)
                       /\ OffsetBefore(o, MatchedOffset) => ScoreGreater(best, score)
            /\ scored.matched_bounds.width = call.oval_template.width
            /\ scored.matched_bounds.height = call.oval_template.height
            /\ scored.original_bounds =
                   RectAt(ExpectedOrigin(call).x, ExpectedOrigin(call).y,
                          call.oval_template.width, call.oval_template.height)

\* An oval was matched away from the expected corner, at the first of two
\* offsets of the greatest score, other offsets having a lesser score.
C24_Witness ==
    /\ OvalScored
    /\ calc.scored.status = "some"
    /\ MatchedOffset # << 0, 0 >>
    /\ \E o \in EvaluatedOffsets(calc.call) :
           /\ OffsetBefore(MatchedOffset, o)
           /\ MatchScoreAt(calc.call, o) = calc.scored.match_score
    /\ \E o \in EvaluatedOffsets(calc.call) :
           ScoreGreater(calc.scored.match_score, MatchScoreAt(calc.call, o))

\* The binarized patch at the bounds that a call matched.
MatchedPatch ==
    threshold(ViewToImage(calc.call.img, calc.scored.matched_bounds.left,
                          calc.scored.matched_bounds.top,
                          calc.call.oval_template.width, calc.call.oval_template.height),
              calc.call.level)

TemplatePositions == Positions(calc.call.oval_template.width, calc.call.oval_template.height)

\* The positions at which the matched patch is white and the template black.
PatchLighter ==
    { p \in TemplatePositions :
        MatchedPatch.pixels[p] = WHITE /\ calc.call.oval_template.pixels[p] = BLACK }

\* The positions at which the matched patch is black and the template white.
PatchDarker ==
    { p \in TemplatePositions :
        MatchedPatch.pixels[p] = BLACK /\ calc.call.oval_template.pixels[p] = WHITE }

\* C25 as stated: the match score of a binarized patch against the binary
\* template, the ratio of white pixels in diff(patch, template), is the
\* fraction of the positions at which the pixel of the patch equals the
\* pixel of the template.
C25_MatchScoreIsFractionEqual ==
    (OvalScored /\ calc.scored.status = "some") =>
        /\ calc.scored.match_score.total = Cardinality(TemplatePositions)
        /\ calc.scored.match_score.count =
               Cardinality({ p \in TemplatePositions :
                   MatchedPatch.pixels[p] = calc.call.oval_template.pixels[p] })

\* C25: the match score of a binarized patch against the binary template,
\* the ratio of white pixels in diff(patch, template), is the fraction of the
\* positions at which the pixel of the patch is not lighter than the pixel
\* of the template: those where the two are equal and those where the patch
\* is black and the template white.
C25_MatchScoreIsFractionNotLighter ==
    (OvalScored /\ calc.scored.status = "some") =>
        /\ \A p \in TemplatePositions :
               /\ MatchedPatch.pixels[p] \in {BLACK, WHITE}
               /\ calc.call.oval_template.pixels[p] \in {BLACK, WHITE}
        /\ calc.scored.match_score.total = Cardinality(TemplatePositions)
        /\ calc.scored.match_score.count =
               Cardinality(TemplatePositions) - Cardinality(PatchLighter)

\* A patch was matched that is black at a position where the template is
\* white, and whose score counts that position.
C25_Witness ==
    /\ OvalScored
    /\ calc.scored.status = "some"
    /\ PatchDarker # {}
    /\ calc.scored.match_score.count + Cardinality(PatchLighter) =
           Cardinality(TemplatePositions)

\* The call scores an oval of a page of the canvas size at a point of its
\* grid.
CanvasCall ==
    /\ calc.call.img.width = geometry.canvas_size.width
    /\ calc.call.img.height = geometry.canvas_size.height
    /\ Some(calc.call.expected_oval_center) =
           TimingMarkGridGet(PrintedGrid(geometry), calc.call.location.column,
                             calc.call.location.row)

\* The patch at an offset lies within the page.
CropInsidePage(call, o) ==
    /\ 0 <= ExpectedOrigin(call).x + o[1]
    /\ ExpectedOrigin(call).x + o[1] + call.oval_template.width <= call.img.width
    /\ 0 <= ExpectedOrigin(call).y + o[2]
    /\ ExpectedOrigin(call).y + o[2] + call.oval_template.height <= call.img.height

\* center - size / 2 is below zero.
OriginUnderflows(call) == ExpectedOrigin(call).x < 0 \/ ExpectedOrigin(call).y < 0

\* C28 as stated: whatever point of the grid of a page of the canvas size
\* an oval is expected at, every patch that score_oval_mark evaluates lies
\* within the page, the subtraction that gives the corner of the search
\* does not go below zero, and so the call does not panic.
C28_CropsInsidePage ==
    (OvalScored /\ CanvasCall) =>
        /\ ~OriginUnderflows(calc.call)
        /\ \A o \in EvaluatedOffsets(calc.call) : CropInsidePage(calc.call, o)
        /\ calc.scored.status # "panic"

\* C28: score_oval_mark panics exactly when the corner of the search goes
\* below zero where overflow is checked, or a patch that it evaluates
\* reaches beyond the right or the bottom edge of the page; patches to the
\* left of the page or above it are skipped.
C28_PanicsBeyondPage ==
    OvalScored =>
        (calc.scored.status = "panic" <=>
            \/ calc.call.overflow_checks /\ OriginUnderflows(calc.call)
            \/ \E o \in EvaluatedOffsets(calc.call) : ~CropInsidePage(calc.call, o))

\* An oval expected at the last column of the grid of a page of the canvas
\* size: the patch four pixels to the right of the expected place reaches
\* beyond the right edge, and the call panicked.
C28_Witness ==
    /\ OvalScored
    /\ CanvasCall
    /\ calc.call.location.column = LastColumn
    /\ ~OriginUnderflows(calc.call)
    /\ CropInsidePage(calc.call, << 3, 0 >>)
    /\ ~CropInsidePage(calc.call, << 4, 0 >>)
    /\ calc.scored.status = "panic"

(***************************************************************************)
(* timing_marks.rs: the pools of find_partial_timing_marks_from_candidate_ *)
(* rects (lines 155-175), from which the four border lines are fitted.     *)
(***************************************************************************)
\* Line 155.
half_height(g) == g.canvas_size.height \div 2

\* Lines 156-160.
top_half_rects(g, rects) ==
    LET Keep(r) == r.top < half_height(g) IN SelectSeq(rects, Keep)

\* Lines 161-165.
bottom_half_rects(g, rects) ==
    LET Keep(r) == r.top >= half_height(g) IN SelectSeq(rects, Keep)

\* A left pool that is split off at half the width of the canvas.
LeftHalfRectsByWidth(g, rects) ==
    LET Keep(r) == r.left < g.canvas_size.width \div 2 IN SelectSeq(rects, Keep)

\* Lines 166-170.
left_half_rects(g, rects) ==
    LET Keep(r) == r.left < half_height(g) IN SelectSeq(rects, Keep)

\* Lines 171-175.
right_half_rects(g, rects) ==
    LET Keep(r) == r.left >= half_height(g) IN SelectSeq(rects, Keep)

\* Candidate rects of a page: marks of the top and the bottom row at the
\* left, on either side of the middle of the width, at three quarters of it
\* and at the right, and a mark of the left column halfway down.
PoolCandidates(g) ==
    << LatticeRect(0, 0), LatticeRect(16, 0), LatticeRect(17, 0), LatticeRect(25, 0),
       LatticeRect(LastColumn, 0), LatticeRect(0, LastRow(g) \div 2),
       LatticeRect(17, LastRow(g)), LatticeRect(LastColumn, LastRow(g)) >>

InitPools ==
    /\ pc = "calc"
    /\ \E g \in Geometries, keep \in SUBSET (1 .. 8) :
           calc = [ function |-> "find_partial_timing_marks_from_candidate_rects",
                    geometry |-> g,
                    rects |-> KeepIndexes(PoolCandidates(g), keep, 1) ]
    /\ CalcOnly

\* Lines 155-175 of find_partial_timing_marks_from_candidate_rects.
SplitIntoPools ==
    /\ pc = "calc"
    /\ calc.function = "find_partial_timing_marks_from_candidate_rects"
    /\ calc' = [ function |-> calc.function,
                 geometry |-> calc.geometry,
                 rects |-> calc.rects,
                 top_half_rects |-> top_half_rects(calc.geometry, calc.rects),
                 bottom_half_rects |-> bottom_half_rects(calc.geometry, calc.rects),
                 left_half_rects |-> left_half_rects(calc.geometry, calc.rects),
                 right_half_rects |-> right_half_rects(calc.geometry, calc.rects) ]
    /\ pc' = "calculated"
    /\ UNCHANGED calc_unchanged

NextPools == SplitIntoPools

SpecPools == InitPools /\ [][NextPools]_vars

PoolsSplit ==
    pc = "calculated" /\ calc.function = "find_partial_timing_marks_from_candidate_rects"

\* The rects of a list, in order, whose index is in `keep`.
PoolOf(keep) == KeepIndexes(calc.rects, keep, 1)

\* The top and the bottom pool are split off at half the height of the
\* canvas.
TopAndBottomPools ==
    /\ calc.top_half_rects =
           PoolOf({ j \in DOMAIN calc.rects :
                      2 * calc.rects[j].top + 1 < calc.geometry.canvas_size.height })
    /\ calc.bottom_half_rects =
           PoolOf({ j \in DOMAIN calc.rects :
                      2 * calc.rects[j].top + 1 >= calc.geometry.canvas_size.height })

\* C26 as stated: the top pool holds the candidates whose top edge is above
\* half the height of the canvas and the bottom pool the others; the left
\* pool holds those whose left edge is left of half the width of the canvas
\* and the right pool the others.
C26_PoolsSplitAtHalfWidth ==
    PoolsSplit =>
        /\ TopAndBottomPools
        /\ calc.left_half_rects =
               PoolOf({ j \in DOMAIN calc.rects :
                          2 * calc.rects[j].left + 1 < calc.geometry.canvas_size.width })
        /\ calc.right_half_rects =
               PoolOf({ j \in DOMAIN calc.rects :
                          2 * calc.rects[j].left + 1 >= calc.geometry.canvas_size.width })

\* C26: the top pool holds the candidates whose top edge is above half the
\* height of the canvas and the bottom pool the others; the left pool holds
\* those whose left edge is less than half the height of the canvas and the
\* right pool the others.
C26_PoolsSplitAtHalfHeight ==
    PoolsSplit =>
        /\ TopAndBottomPools
        /\ calc.left_half_rects =
               PoolOf({ j \in DOMAIN calc.rects :
                          2 * calc.rects[j].left + 1 < calc.geometry.canvas_size.height })
        /\ calc.right_half_rects =
               PoolOf({ j \in DOMAIN calc.rects :
                          2 * calc.rects[j].left + 1 >= calc.geometry.canvas_size.height })

\* A mark of the top row right of the middle of the page was put into the
\* left pool, with a mark of the first column.
C26_Witness ==
    /\ PoolsSplit
    /\ \E j, k \in DOMAIN calc.left_half_rects :
           /\ 2 * calc.left_half_rects[j].left >= calc.geometry.canvas_size.width
           /\ calc.left_half_rects[k] = LatticeRect(0, 0)
    /\ calc.right_half_rects # << >>

=============================================================================
